---- MODULE Spec2Model ----
(***************************************************************************)
(* Polagent: the swarm scheduler of AgentOrchestrator (the delegateTasks   *)
(* tool's execute function, orchestrator.ts).                              *)
(*                                                                         *)
(* One run of execute is modelled on the JavaScript event loop: every      *)
(* action is one macrotask together with the microtasks it queues, so the  *)
(* code between two awaits is atomic.  Time is a discrete clock (now, in   *)
(* milliseconds, advanced TickMs at a time); a timer fires at its due time *)
(* before the clock moves on.                                              *)
(*                                                                         *)
(* A task's id is its position in the submitted list, or the id of an      *)
(* earlier task when ids repeat; the id 0 stands for any id that is not    *)
(* among the submitted tasks.  An absent dependsOn and an empty one        *)
(* take the same branches in the code (lines 126 and 143) and are both {}. *)
(* agentId, latencyMs and totalLatencyMs take part in no decision of the   *)
(* scheduler and are left out; getAgent throwing for an unknown agentId    *)
(* (line 139) rejects the task's promise and is one cause of WorkerRejects.*)
(*                                                                         *)
(* The model router (createModelRouter, router.ts) is the second part.     *)
(* select reads the catalog and the metrics store and writes neither; with *)
(* the in-memory store every metrics.get of a call runs before the first   *)
(* await yields (router.ts 47-52, metrics.ts get), so a call is one atomic *)
(* step.  Scores are exact fractions; the code computes them in doubles,   *)
(* which order the fractions of this model the same way.  Profile ids are  *)
(* 1..n in catalog order; an id beyond n names no profile.                 *)
(*                                                                         *)
(* The metrics store (InMemoryModelMetricsStore, metrics.ts) is the third  *)
(* part.  The body of record holds no await, so a call of record is one    *)
(* atomic step; the moving averages are exact fractions in lowest terms.   *)
(* inputTokens, outputTokens and errorType are not read by the store and   *)
(* are left out of its calls; timestamps count the calls.  The stores the  *)
(* router starts from are built by record from short histories.            *)
(*                                                                         *)
(* The scheduler runs under Spec (FairSpec adds that pending workers       *)
(* return), the router under RouterSpec, the store under MetricsSpec,      *)
(* applyEnabledModels under StartupSpec, the /ai/agentic handler under     *)
(* AgenticSpec and the executeTrade tool under TradeSpec; each leaves the  *)
(* others' variables at their initial values.                              *)
(***************************************************************************)
EXTENDS Integers, Sequences, FiniteSets, TLC

\* ------------------------------------------------------------------ bounds
MaxTasks == 3
MaxEdges == 2
MaxSteps == 2
MaxTicks == 3
TickMs == 15000
MaxDeviations == 3
MaxRecords == 2
MaxChars == 4
MaxCalls == 3

\* --------------------------------------------------------- program constants
orchestrationOverhead == 1
DECISION_DEADLINE_MS == 30000
SerialCollapseThreshold == 3
DefaultMaxCandidates == 3
TestCatalogSize == 2
DailyLimit == 1

CircularDependencyError == "Circular dependency detected in tasks"
DeadlineError == "Decision deadline of 30000ms exceeded"
WorkerError == "worker invocation failed"
NoProfilesConfigured == "No model profiles configured."

VARIABLES
    tasks,              \* the submitted task list (execute's argument)
    now,                \* Date.now()
    startTime,          \* line 105
    timer,              \* the setTimeout of line 196: [state, due]
    loop,               \* the promise of the scheduling loop (async IIFE, line 117)
    loopError,          \* its rejection reason, "" while there is none
    results,            \* Map id -> result (line 110)
    remainingTasks,     \* Set of ids (line 119)
    executionResults,   \* line 111
    totalCriticalSteps, \* line 112
    promises,           \* the promise of every launched task: id -> state
    invocations,        \* the subAgent.respond calls made so far, in order
    stageNo,            \* number of stages launched (loop iterations past line 134)
    returned,           \* what execute has returned to its caller
    profiles,           \* the router's catalog (router.ts line 15)
    stats,              \* the metrics store's Map: <<modelId, taskType>> -> row
    request,            \* the arguments of the select call made, if any
    selection,          \* what that call returned or threw
    recorded,           \* the arguments of the record calls made on the store
    config,             \* each profile's provider and the API keys of env
    agentic,            \* the /ai/agentic handler: position, attempts, outcome
    trading             \* the executeTrade tool: the hooks' counter and the calls

schedulerVars ==
    <<tasks, now, startTime, timer, loop, loopError, results, remainingTasks,
      executionResults, totalCriticalSteps, promises, invocations, stageNo, returned>>

routerVars == <<profiles, stats, request, selection, recorded>>

hostVars == <<config, agentic, trading>>

vars == <<schedulerVars, routerVars, hostVars>>

\* ------------------------------------------------------------------ inputs
Max(S) == CHOOSE x \in S : \A y \in S : y <= x

RECURSIVE SumUpTo(_, _)
SumUpTo(f, n) == IF n = 0 THEN 0 ELSE f[n] + SumUpTo(f, n - 1)

\* every assignment of dependsOn sets to n tasks with at most MaxEdges edges;
\* a dependsOn may name the task itself, another task, or the unsubmitted id 0
DependsOnChoices(n) ==
    { d \in [1..n -> SUBSET (0..n)] :
        SumUpTo([i \in 1..n |-> Cardinality(d[i])], n) <= MaxEdges }

\* the ids of n tasks: a task's id is new (its position) or repeats the id of an
\* earlier task, which the input schema does not reject (lines 84-86)
IdChoices(n) ==
    { ids \in [1..n -> 1..n] :
        \A i \in 1..n : ids[i] = i \/ \E j \in 1..(i - 1) : ids[j] = ids[i] }

\* the task lists of up to MaxTasks tasks: those of distinct ids with at most
\* MaxEdges dependsOn edges, and those of independent tasks in which ids repeat
TaskLists ==
    UNION { { [i \in 1..n |-> [id |-> i, dependsOn |-> d[i]]] : d \in DependsOnChoices(n) }
            \cup { [i \in 1..n |-> [id |-> ids[i], dependsOn |-> {}]] : ids \in IdChoices(n) }
            : n \in 0..MaxTasks }

\* line 166-169: steps is 1 when the response has no steps function (the object
\* TradingAgent.respond returns has none), else the count steps() reports, of
\* which the largest, MaxSteps, is taken
StepChoices == {1, MaxSteps}

\* ------------------------------------------------------------------ helpers
TaskIds(ts) == { ts[i].id : i \in 1..Len(ts) }

\* new Map(tasks.map(t => [t.id, t])): the last task of an id wins
TaskMap(ts) ==
    [id \in TaskIds(ts) |-> ts[Max({ i \in 1..Len(ts) : ts[i].id = id })]]

\* results.has(id)
Has(res, id) == id \in DOMAIN res

\* results.get(id): <<>> is undefined
Get(res, id) == IF id \in DOMAIN res THEN <<res[id]>> ELSE <<>>

\* JSON.stringify of a looked-up result; undefined prints as "undefined"
JSONStringify(v) == IF v = <<>> THEN <<"undefined">> ELSE <<"json", v[1]>>

\* a Set iterates in insertion order: the ids of a set in submission order
RECURSIVE InOrder(_, _, _)
InOrder(ts, S, i) ==
    IF i > Len(ts) THEN <<>>
    ELSE IF ts[i].id \in S /\ \A j \in 1..(i - 1) : ts[j].id # ts[i].id
         THEN <<ts[i].id>> \o InOrder(ts, S, i + 1)
         ELSE InOrder(ts, S, i + 1)

\* variant: no dependency handling, every remaining task is ready
IsReady_NoDependencies(ts, res, taskId) == TRUE

\* variant: a dependency of a task on itself is skipped
IsReady_SkipSelf(ts, res, taskId) ==
    \A depId \in TaskMap(ts)[taskId].dependsOn \ {taskId} : Has(res, depId)

\* line 125-128: the filter predicate
IsReady(ts, res, taskId) ==
    \A depId \in TaskMap(ts)[taskId].dependsOn : Has(res, depId)

\* variant: a stage is the first ready task alone
CurrentStageTasks_OneAtATime(ts, rem, res) ==
    LET ready == InOrder(ts, { taskId \in rem : IsReady(ts, res, taskId) }, 1)
    IN  IF Len(ready) = 0 THEN ready ELSE <<ready[1]>>

\* lines 122-130
CurrentStageTasks(ts, rem, res) ==
    InOrder(ts, { taskId \in rem : IsReady(ts, res, taskId) }, 1)

\* variant: the context is built from every result merged so far
DepContext_All(ts, res, taskId) ==
    [id \in DOMAIN res |-> JSONStringify(Get(res, id))]

\* lines 142-151: the dependency context put into enrichedDescription
DepContext(ts, res, taskId) ==
    [id \in TaskMap(ts)[taskId].dependsOn |-> JSONStringify(Get(res, id))]

SeqToSet(s) == { s[i] : i \in 1..Len(s) }

\* the opaque result payload a worker produces for a task (response.result)
ResultOf(taskId) == [producedBy |-> taskId]

NotReturned == [kind |-> "none"]

\* variant: a run of exactly the threshold's size is flagged too
SuccessValue_AtMostThreshold(ts, s, t0, t) ==
    [kind |-> "success",
     results |-> s.executionResults,
     totalSubagents |-> Len(ts),
     wallClockTimeMs |-> t - t0,
     criticalSteps |-> s.totalCriticalSteps,
     serialCollapseDetected |-> (Len(ts) <= SerialCollapseThreshold)]

\* lines 216-228: the success return value
SuccessValue(ts, s, t0, t) ==
    [kind |-> "success",
     results |-> s.executionResults,
     totalSubagents |-> Len(ts),
     wallClockTimeMs |-> t - t0,
     criticalSteps |-> s.totalCriticalSteps,
     serialCollapseDetected |-> (Len(ts) < SerialCollapseThreshold)]

\* lines 229-238: the catch block's return value
FailureValue(ts, msg, t0, t) ==
    [kind |-> "error",
     error |-> msg,
     totalSubagents |-> Len(ts),
     wallClockTimeMs |-> t - t0,
     status |-> "failed"]

\* variant: the race takes the latest settlement
AwaitRace_LastWins(ret, outcome) == outcome

\* line 116: Promise.race settles once, with the first settlement it sees;
\* a later settlement of the other promise is ignored
AwaitRace(ret, outcome) == IF ret.kind = "none" THEN outcome ELSE ret

\* variant: the timer is set to twice the delay
SetTimeout_Late(t, delay) == [state |-> "pending", due |-> t + 2 * delay]

\* lines 196-204: setTimeout(callback, delay) called at time t
SetTimeout(t, delay) == [state |-> "pending", due |-> t + delay]

\* lines 109-113 and 118-119: the local state of a fresh run
FreshRun(ts) ==
    [loop |-> "pending", loopError |-> "",
     results |-> << >>,
     remainingTasks |-> TaskIds(ts),
     executionResults |-> << >>,
     totalCriticalSteps |-> orchestrationOverhead,
     promises |-> << >>,
     invocations |-> << >>,
     stageNo |-> 0]

\* lines 137-163: the tasks of a stage are launched one after the other without
\* yielding; each builds its context and calls subAgent.respond
LaunchStage(ts, s, stage) ==
    [s EXCEPT
       !.promises = [id \in DOMAIN s.promises \cup SeqToSet(stage) |->
                        IF id \in SeqToSet(stage)
                        THEN [state |-> "pending", steps |-> 0]
                        ELSE s.promises[id]],
       !.invocations = @ \o [k \in 1..Len(stage) |->
                               [id |-> stage[k],
                                context |-> DepContext(ts, s.results, stage[k]),
                                stage |-> s.stageNo + 1]],
       !.stageNo = @ + 1]

\* variant: the stage is computed and checked before the loop test
LoopHead_StageFirst(ts, s) ==
    LET currentStageTasks == CurrentStageTasks(ts, s.remainingTasks, s.results)
    IN  IF Len(currentStageTasks) = 0
        THEN [s EXCEPT !.loop = "rejected", !.loopError = CircularDependencyError]
        ELSE LaunchStage(ts, s, currentStageTasks)

\* lines 121-136: the loop test, the stage computation, the cycle check and the
\* launch of the stage, up to the await of Promise.all
LoopHead(ts, s) ==
    IF s.remainingTasks = {}
    THEN [s EXCEPT !.loop = "fulfilled"]
    ELSE LET currentStageTasks == CurrentStageTasks(ts, s.remainingTasks, s.results)
         IN  IF Len(currentStageTasks) = 0
             THEN [s EXCEPT !.loop = "rejected", !.loopError = CircularDependencyError]
             ELSE LaunchStage(ts, s, currentStageTasks)

\* the ids launched by the loop iteration in progress
StageInProgress(s) ==
    { s.invocations[k].id : k \in { j \in 1..Len(s.invocations) :
                                       s.invocations[j].stage = s.stageNo } }

\* variant: the stage is taken as done when its first promise has fulfilled
AllFulfilled_Any(s) ==
    \E id \in StageInProgress(s) : s.promises[id].state = "fulfilled"

\* line 136: Promise.all fulfils when every promise of the stage has fulfilled
AllFulfilled(s) ==
    \A id \in StageInProgress(s) : s.promises[id].state = "fulfilled"

\* lines 182-192: merge the stage's results, in the stage's order
RECURSIVE MergeResults(_, _, _)
MergeResults(s, stage, k) ==
    IF k > Len(stage) THEN s
    ELSE LET id == stage[k]
             res == [id |-> id, result |-> ResultOf(id), steps |-> s.promises[id].steps]
         IN  MergeResults(
                 [s EXCEPT
                    !.results = [x \in DOMAIN s.results \cup {id} |->
                                    IF x = id THEN res.result ELSE s.results[x]],
                    !.remainingTasks = @ \ {id},
                    !.executionResults = Append(@, res)],
                 stage, k + 1)

\* variant: the steps of a stage's tasks are added up
MergeStage_SumSteps(ts, s) ==
    LET stage == InOrder(ts, StageInProgress(s), 1)
        merged == MergeResults(s, stage, 1)
    IN  [merged EXCEPT
           !.totalCriticalSteps =
               @ + SumUpTo([k \in 1..Len(stage) |-> s.promises[stage[k]].steps],
                           Len(stage))]

\* variant: the merged tasks stay in remainingTasks
MergeStage_KeepsRemaining(ts, s) ==
    LET stage == InOrder(ts, StageInProgress(s), 1)
        merged == MergeResults(s, stage, 1)
    IN  [merged EXCEPT
           !.remainingTasks = s.remainingTasks,
           !.totalCriticalSteps =
               @ + Max({ s.promises[id].steps : id \in StageInProgress(s) } \cup {0})]

\* lines 182-192: the stage is merged, then its largest step count is added
MergeStage(ts, s) ==
    LET stage == InOrder(ts, StageInProgress(s), 1)
        merged == MergeResults(s, stage, 1)
    IN  [merged EXCEPT
           !.totalCriticalSteps =
               @ + Max({ s.promises[id].steps : id \in StageInProgress(s) } \cup {0})]

\* the scheduler's local state as one record
Sched ==
    [loop |-> loop, loopError |-> loopError, results |-> results,
     remainingTasks |-> remainingTasks, executionResults |-> executionResults,
     totalCriticalSteps |-> totalCriticalSteps, promises |-> promises,
     invocations |-> invocations, stageNo |-> stageNo]

SetSched(s) ==
    /\ loop' = s.loop
    /\ loopError' = s.loopError
    /\ results' = s.results
    /\ remainingTasks' = s.remainingTasks
    /\ executionResults' = s.executionResults
    /\ totalCriticalSteps' = s.totalCriticalSteps
    /\ promises' = s.promises
    /\ invocations' = s.invocations
    /\ stageNo' = s.stageNo

\* lines 206-238: what execute returns once the loop's promise has settled
LoopOutcome(ts, s, t0, t) ==
    IF s.loop = "fulfilled" THEN SuccessValue(ts, s, t0, t)
    ELSE FailureValue(ts, s.loopError, t0, t)

ReturnAfter(ts, s, ret, t0, t) ==
    IF s.loop = "pending" THEN ret ELSE AwaitRace(ret, LoopOutcome(ts, s, t0, t))

\* ------------------------------------------------------------------ model router
\* types.ts: two of the five task types, and the three priorities
TaskTypes == {"marketAnalysis", "tradingDecision"}
TaskPriorities == {"quality", "latency", "cost"}

\* exact fractions num/den, den > 0, for the scores
Rat(n, d) == [num |-> n, den |-> d]
Times(a, b) == Rat(a.num * b.num, a.den * b.den)
OneMinus(a) == Rat(a.den - a.num, a.den)
Less(a, b) == a.num * b.den < b.num * a.den
Same(a, b) == a.num * b.den = b.num * a.den
MathMax(a, b) == IF Less(a, b) THEN b ELSE a
MathMin(a, b) == IF Less(b, a) THEN b ELSE a
RECURSIVE GCD(_, _)
GCD(a, b) == IF b = 0 THEN a ELSE GCD(b, a % b)
Lowest(a) == Rat(a.num \div GCD(a.num, a.den), a.den \div GCD(a.num, a.den))
Plus(a, b) == Lowest(Rat(a.num * b.den + b.num * a.den, a.den * b.den))
Quotient(a, b) == Rat(a.num * b.den, a.den * b.num)

NoRequest == [kind |-> "none"]
NotSelected == [kind |-> "none"]

\* the profile the router's tests start from (profiles.ts, baseProfile)
BaseProfile(id) ==
    [id |-> id,
     enabledByDefault |-> TRUE,
     cost |-> [inputUsdPer1kTokens |-> 1, outputUsdPer1kTokens |-> 1],
     latency |-> [p50Ms |-> 1000, p95Ms |-> 3000],
     capabilities |-> [supportsTools |-> TRUE, supportsJson |-> TRUE,
                       supportsLongContext |-> TRUE],
     suitability |-> [t \in TaskTypes |-> Rat(5, 10)]]

\* the values a profile's fields take: the base profile's and, for each field,
\* others that take the other branch of the code that reads it
CostChoices ==
    { [inputUsdPer1kTokens |-> 1, outputUsdPer1kTokens |-> 1],
      [inputUsdPer1kTokens |-> 0, outputUsdPer1kTokens |-> 0] }

LatencyChoices == { [p50Ms |-> 1000, p95Ms |-> 3000], [p50Ms |-> 400, p95Ms |-> 1500] }

SuitabilityChoices ==
    { s \in [TaskTypes -> {Rat(0, 10), Rat(5, 10), Rat(7, 10), Rat(9, 10)}] :
        s["tradingDecision"] = Rat(5, 10) }

ProfileChoices(id) ==
    { [id |-> id, enabledByDefault |-> e, cost |-> c, latency |-> l,
       capabilities |-> k, suitability |-> s] :
        e \in BOOLEAN, c \in CostChoices, l \in LatencyChoices,
        k \in [supportsTools : BOOLEAN, supportsJson : BOOLEAN,
               supportsLongContext : BOOLEAN],
        s \in SuitabilityChoices }

Bit(b) == IF b THEN 1 ELSE 0

\* in how many fields a profile differs from the base profile
ProfileDeviations(p) ==
    LET base == BaseProfile(p.id)
    IN  Bit(p.enabledByDefault # base.enabledByDefault)
        + Bit(p.cost # base.cost)
        + Bit(p.latency # base.latency)
        + Bit(~p.capabilities.supportsTools)
        + Bit(~p.capabilities.supportsJson)
        + Bit(~p.capabilities.supportsLongContext)
        + Bit(p.suitability["marketAnalysis"] # base.suitability["marketAnalysis"])
        + Bit(p.suitability["tradingDecision"] # base.suitability["tradingDecision"])

ProfilesBy(id, j) == { p \in ProfileChoices(id) : ProfileDeviations(p) = j }

\* the catalogs of n profiles that differ from n base profiles in k fields
RECURSIVE Catalogs(_, _)
Catalogs(n, k) ==
    IF n = 0 THEN (IF k = 0 THEN { << >> } ELSE {})
    ELSE UNION { { Append(c, p) : c \in Catalogs(n - 1, k - j), p \in ProfilesBy(n, j) }
                 : j \in 0..k }

RECURSIVE CatalogDeviations(_)
CatalogDeviations(ps) ==
    IF ps = << >> THEN 0
    ELSE ProfileDeviations(Head(ps)) + CatalogDeviations(Tail(ps))

\* ------------------------------------------------------------- metrics store
\* InMemoryModelMetricsStore (metrics.ts). An optional field is << >> when it
\* is absent and <<value>> when it is present.
ModelOutcomes == {"success", "error", "fallback_success", "fallback_error"}

\* constructor(alpha = 0.2); the one store of the program is built without
\* argument
Alpha == Rat(2, 10)

\* `${modelId}::${taskType}`: a task type holds no colon, so the string names
\* one pair
key(modelId, taskType) == <<modelId, taskType>>

\* Map.prototype.get and Map.prototype.set
MapGet(st, k) == IF k \in DOMAIN st THEN <<st[k]>> ELSE << >>

\* variant: the map is replaced by one that holds the new row only
MapSet_Alone(st, k, row) == [x \in {k} |-> row]

MapSet(st, k, row) == [x \in DOMAIN st \cup {k} |-> IF x = k THEN row ELSE st[x]]

\* variant: the first value counts as a value after 0
ewma_ZeroSeeded(current, value, alpha) ==
    IF current = << >> THEN <<Lowest(Times(alpha, value))>>
    ELSE <<Plus(Times(alpha, value), Times(OneMinus(alpha), current[1]))>>

\* lines 174-179
ewma(current, value, alpha) ==
    IF current = << >> THEN <<value>>
    ELSE <<Plus(Times(alpha, value), Times(OneMinus(alpha), current[1]))>>

\* variant: a fallback that failed is not an error
IsErrorOutcome_ErrorOnly(outcome) == outcome = "error"

\* line 142
IsErrorOutcome(outcome) == outcome = "error" \/ outcome = "fallback_error"

\* variant: the row is not looked up, every call starts a new one
Existing_Undefined(st, k) == << >>

\* line 131
Existing(st, k) == MapGet(st, k)

\* lines 129-158; the body holds no await, so a call of record runs from its
\* first line to its last before anything else does
record(st, metrics) ==
    LET k == key(metrics.modelId, metrics.taskType)
        existing == Existing(st, k)
        copy == IF existing # << >> THEN existing[1]
                ELSE [modelId |-> metrics.modelId, taskType |-> metrics.taskType,
                      calls |-> 0, errors |-> 0,
                      ewmaLatencyMs |-> << >>, ewmaCostUsd |-> << >>,
                      lastCallAt |-> << >>, lastErrorAt |-> << >>]
        counted == [copy EXCEPT !.calls = @ + 1]
        failed == IF IsErrorOutcome(metrics.outcome)
                  THEN [counted EXCEPT !.errors = @ + 1,
                                       !.lastErrorAt = <<metrics.timestamp>>]
                  ELSE counted
        timed == [failed EXCEPT !.lastCallAt = <<metrics.timestamp>>,
                                !.ewmaLatencyMs = ewma(@, Rat(metrics.latencyMs, 1), Alpha)]
        next == IF metrics.costUsd # << >>
                THEN [timed EXCEPT !.ewmaCostUsd = ewma(@, metrics.costUsd[1], Alpha)]
                ELSE timed
    IN  MapSet(st, k, next)

\* ModelCallMetrics (types.ts) with the fields record reads; timestamp is
\* new Date() at the call, counted here in calls
MetricsChoices(timestamp) ==
    [modelId : 1..TestCatalogSize, taskType : TaskTypes, latencyMs : {0, 900},
     costUsd : { << >>, <<Rat(1, 100)>>, <<Rat(3, 100)>> },
     outcome : ModelOutcomes, timestamp : {timestamp}]

\* the keys of the map in the order of their first set (Map keeps insertion
\* order, and set on a key it holds keeps its place), after the calls given
RECURSIVE InsertionOrder(_)
InsertionOrder(calls) ==
    IF calls = << >> THEN << >>
    ELSE LET before == InsertionOrder(SubSeq(calls, 1, Len(calls) - 1))
             k == key(calls[Len(calls)].modelId, calls[Len(calls)].taskType)
         IN  IF \E i \in 1..Len(before) : before[i] = k THEN before
             ELSE Append(before, k)

\* row.lastCallAt?.getTime() ?? 0
LastCallTime(row) == IF row.lastCallAt = << >> THEN 0 ELSE row.lastCallAt[1]

\* variant: the rows as the map holds them
list_Unsorted(st, order) == [i \in 1..Len(order) |-> st[order[i]]]

\* lines 167-171: the values in insertion order, sorted (stably) with the
\* comparator b.lastCallAt - a.lastCallAt
list(st, order) ==
    LET values == [i \in 1..Len(order) |-> st[order[i]]]
        n == Len(values)
        Before(i, j) == \/ LastCallTime(values[i]) > LastCallTime(values[j])
                        \/ LastCallTime(values[i]) = LastCallTime(values[j]) /\ i < j
        pos(i) == 1 + Cardinality({ j \in 1..n : j # i /\ Before(j, i) })
    IN  [x \in 1..n |-> values[CHOOSE i \in 1..n : pos(i) = x]]

\* a store after each of a list of calls of record
RECURSIVE RecordAll(_, _)
RecordAll(st, calls) ==
    IF calls = << >> THEN st ELSE RecordAll(record(st, Head(calls)), Tail(calls))

\* calls for one model and task type, all of one latency and without cost, of
\* which the first few failed
History(modelId, taskType, latencyMs, errors, calls) ==
    [i \in 1..calls |->
        [modelId |-> modelId, taskType |-> taskType, latencyMs |-> latencyMs,
         costUsd |-> << >>, outcome |-> IF i <= errors THEN "error" ELSE "success",
         timestamp |-> i]]

\* the histories a row of the router's store comes from; 20 errors at 900 ms
\* is the history of the router's test (profiles.ts 198-206)
Histories(k) ==
    IF k[2] = "marketAnalysis"
    THEN { History(k[1], k[2], 150, 1, 2), History(k[1], k[2], 900, 4, 5),
           History(k[1], k[2], 900, 20, 20) }
    ELSE { History(k[1], k[2], 900, 20, 20) }

\* the stores with a row for each key of K
RECURSIVE StoresOn(_)
StoresOn(K) ==
    IF K = {} THEN { << >> }
    ELSE LET k == CHOOSE x \in K : TRUE
         IN  { RecordAll(st, h) : st \in StoresOn(K \ {k}), h \in Histories(k) }

\* the stores with k rows, each for a profile of a catalog of n and a task type
StatsChoices(n, k) ==
    UNION { StoresOn(K) : K \in { K \in SUBSET ((1..n) \X TaskTypes) : Cardinality(K) = k } }

\* TaskSpec (types.ts): an absent field is << >>, a present one <<value>>
RequiredChoices ==
    { << >> } \cup { <<r>> : r \in [tools : BOOLEAN, jsonOutput : BOOLEAN,
                                      longContext : BOOLEAN] }

\* TaskBudget (types.ts 19-23): a budget holds any of its three fields
BudgetChoices ==
    { << >> } \cup
    { <<[maxDollars |-> d, maxLatencyMs |-> l, maxInputTokens |-> t]>> :
        d \in { << >>, <<1>> }, l \in { << >>, <<3000>>, <<2000>> },
        t \in { << >>, <<1000>> } }

\* in how many places a budget differs from an absent one
BudgetDeviations(b) ==
    IF b = << >> THEN 0
    ELSE LET fields == Bit(b[1].maxDollars # << >>) + Bit(b[1].maxLatencyMs # << >>)
                       + Bit(b[1].maxInputTokens # << >>)
         IN  IF fields = 0 THEN 1 ELSE fields

\* select's options: maxCandidates is an integer (the one caller passes the
\* env schema's integer in 1..10, server.ts 29-34; 0 exercises the floor of 1)
OverrideChoices == { << >> } \cup { <<id>> : id \in 1..(TestCatalogSize + 1) }

MaxCandidatesChoices == { << >> } \cup { <<m>> : m \in 0..TestCatalogSize }

\* in how many places a required differs from an absent one
RequiredDeviations(q) ==
    IF q = << >> THEN 0
    ELSE LET flags == Bit(q[1].tools) + Bit(q[1].jsonOutput) + Bit(q[1].longContext)
         IN  IF flags = 0 THEN 1 ELSE flags

\* in how many places a call differs from the call
\* select({taskType: "marketAnalysis", priority: "quality"})
RequestDeviations(r) ==
    Bit(r.task.taskType # "marketAnalysis")
    + Bit(r.task.priority # "quality")
    + RequiredDeviations(r.task.required)
    + BudgetDeviations(r.task.budget)
    + Bit(r.options.overrideModelId # << >>)
    + Bit(r.options.maxCandidates # << >>)

\* the calls that differ from it in at most k places: d gives the places taken
\* by taskType, priority, required, budget, overrideModelId and maxCandidates
Requests(k) ==
    UNION { { [kind |-> "select",
               task |-> [taskType |-> t, priority |-> p, required |-> q, budget |-> b],
               options |-> [overrideModelId |-> o, maxCandidates |-> m]] :
                t \in { x \in TaskTypes : Bit(x # "marketAnalysis") = d[1] },
                p \in { x \in TaskPriorities : Bit(x # "quality") = d[2] },
                q \in { x \in RequiredChoices : RequiredDeviations(x) = d[3] },
                b \in { x \in BudgetChoices : BudgetDeviations(x) = d[4] },
                o \in { x \in OverrideChoices : Bit(x # << >>) = d[5] },
                m \in { x \in MaxCandidatesChoices : Bit(x # << >>) = d[6] } }
            : d \in { d \in (0..1) \X (0..1) \X (0..3) \X (0..3) \X (0..1) \X (0..1) :
                        d[1] + d[2] + d[3] + d[4] + d[5] + d[6] <= k } }

\* profiles.find(p => p.id === id): << >> is undefined
Find(ps, id) ==
    LET hits == { i \in 1..Len(ps) : ps[i].id = id }
    IN  IF hits = {} THEN << >> ELSE <<ps[CHOOSE i \in hits : \A j \in hits : i <= j]>>

ManualSelection(profile) ==
    [kind |-> "selection", primary |-> profile, candidates |-> <<profile>>,
     reason |-> <<"manual_override">>]

\* variant: the override is looked up among the enabled profiles only
ManualOverride_EnabledOnly(ps, override) ==
    IF override = << >> THEN << >>
    ELSE LET profile == Find(SelectSeq(ps, LAMBDA p : p.enabledByDefault), override[1])
         IN  IF profile = << >> THEN << >> ELSE <<ManualSelection(profile[1])>>

\* variant: an override that names no profile is an error
ManualOverride_RejectsUnknown(ps, override) ==
    IF override = << >> THEN << >>
    ELSE LET profile == Find(ps, override[1])
         IN  IF profile = << >>
             THEN <<[kind |-> "error", error |-> <<"unknown model", override[1]>>]>>
             ELSE <<ManualSelection(profile[1])>>

\* lines 25-34: << >> when select goes on to the automatic path
ManualOverride(ps, override) ==
    IF override = << >> THEN << >>
    ELSE LET profile == Find(ps, override[1])
         IN  IF profile = << >> THEN << >> ELSE <<ManualSelection(profile[1])>>

\* lines 73-88
matchesRequirements(profile, task) ==
    IF task.required = << >> THEN TRUE
    ELSE LET required == task.required[1]
         IN  IF required.tools /\ ~profile.capabilities.supportsTools THEN FALSE
             ELSE IF required.jsonOutput /\ ~profile.capabilities.supportsJson THEN FALSE
             ELSE IF required.longContext /\ ~profile.capabilities.supportsLongContext
                  THEN FALSE
             ELSE TRUE

\* variant: the price of 1k tokens in and out is held against maxDollars
matchesBudget_Dollars(profile, task) ==
    IF task.budget = << >> THEN TRUE
    ELSE LET budget == task.budget[1]
         IN  IF budget.maxLatencyMs # << >> /\ profile.latency.p95Ms > budget.maxLatencyMs[1]
             THEN FALSE
             ELSE IF /\ budget.maxDollars # << >>
                     /\ profile.cost.inputUsdPer1kTokens + profile.cost.outputUsdPer1kTokens
                            > budget.maxDollars[1]
             THEN FALSE
             ELSE TRUE

\* variant: the median latency is held against the budget
matchesBudget_Median(profile, task) ==
    IF task.budget = << >> THEN TRUE
    ELSE LET budget == task.budget[1]
         IN  IF budget.maxLatencyMs # << >> /\ profile.latency.p50Ms > budget.maxLatencyMs[1]
             THEN FALSE
             ELSE TRUE

\* lines 90-102
matchesBudget(profile, task) ==
    IF task.budget = << >> THEN TRUE
    ELSE LET budget == task.budget[1]
         IN  IF budget.maxLatencyMs # << >> /\ profile.latency.p95Ms > budget.maxLatencyMs[1]
             THEN FALSE
             ELSE TRUE

\* lines 36-39
EnabledEligible(ps, task) ==
    SelectSeq(SelectSeq(SelectSeq(ps, LAMBDA p : p.enabledByDefault),
                        LAMBDA p : matchesRequirements(p, task)),
              LAMBDA p : matchesBudget(p, task))

\* variant: no second tier
Eligible_EnabledOnly(ps, task) == EnabledEligible(ps, task)

\* variant: no first tier, enabledByDefault is not read
Eligible_OneTier(ps, task) ==
    SelectSeq(SelectSeq(ps, LAMBDA p : matchesRequirements(p, task)),
              LAMBDA p : matchesBudget(p, task))

\* lines 40-45
Eligible(ps, task) ==
    IF Len(EnabledEligible(ps, task)) > 0
    THEN EnabledEligible(ps, task)
    ELSE SelectSeq(SelectSeq(ps, LAMBDA p : matchesRequirements(p, task)),
                   LAMBDA p : matchesBudget(p, task))

\* lines 135-137
suitability(profile, taskType) ==
    IF taskType \in DOMAIN profile.suitability
    THEN profile.suitability[taskType]
    ELSE Rat(5, 10)

\* variant: no lower bound
clamp_NoFloor(value, min, max) == MathMin(max, value)

\* lines 139-141
clamp(value, min, max) == MathMin(max, MathMax(min, value))

\* metrics.get(modelId, taskType) of the in-memory store: << >> is undefined
MetricsGet(ms, modelId, taskType) == MapGet(ms, key(modelId, taskType))

\* variant: the observed history is not read
scoreProfile_IgnoresStats(profile, task, ms) ==
    LET costSum == profile.cost.inputUsdPer1kTokens + profile.cost.outputUsdPer1kTokens
        costScore == IF costSum > 0 THEN Rat(1, costSum) ELSE Rat(1, 1)
        latencyScore == Quotient(Rat(1000, 1),
                                 MathMax(Rat(200, 1), Rat(profile.latency.p50Ms, 1)))
        priorityBoost == IF task.priority = "quality" THEN Rat(1, 1)
                         ELSE IF task.priority = "latency" THEN latencyScore
                         ELSE costScore
    IN  Times(suitability(profile, task.taskType), priorityBoost)

\* lines 104-133
scoreProfile(profile, task, ms) ==
    LET baseSuitability == suitability(profile, task.taskType)
        st == MetricsGet(ms, profile.id, task.taskType)
        errorRate == IF st # << >> /\ st[1].calls > 0
                     THEN Rat(st[1].errors, st[1].calls)
                     ELSE Rat(0, 1)
        reliability == clamp(OneMinus(errorRate), Rat(2, 10), Rat(1, 1))
        latencyMs == IF st # << >> /\ st[1].ewmaLatencyMs # << >>
                     THEN st[1].ewmaLatencyMs[1]
                     ELSE Rat(profile.latency.p50Ms, 1)
        costSum == profile.cost.inputUsdPer1kTokens + profile.cost.outputUsdPer1kTokens
        costScore == IF costSum > 0 THEN Rat(1, costSum) ELSE Rat(1, 1)
        latencyScore == Quotient(Rat(1000, 1), MathMax(Rat(200, 1), latencyMs))
        priorityBoost == IF task.priority = "quality" THEN Rat(1, 1)
                         ELSE IF task.priority = "latency" THEN latencyScore
                         ELSE costScore
    IN  Times(Times(baseSuitability, reliability), priorityBoost)

\* lines 47-52
Scored(eligible, task, ms) ==
    [k \in 1..Len(eligible) |->
        [profile |-> eligible[k], score |-> scoreProfile(eligible[k], task, ms)]]

\* variant: the comparator is a.score - b.score
SortByScore_Ascending(scored) ==
    LET n == Len(scored)
        Before(i, j) == \/ Less(scored[i].score, scored[j].score)
                        \/ Same(scored[i].score, scored[j].score) /\ i < j
        pos(i) == 1 + Cardinality({ j \in 1..n : j # i /\ Before(j, i) })
    IN  [k \in 1..n |-> scored[CHOOSE i \in 1..n : pos(i) = k]]

\* line 54: Array.prototype.sort is stable; the comparator b.score - a.score
\* puts the higher score first and keeps the order of equal scores
SortByScore(scored) ==
    LET n == Len(scored)
        Before(i, j) == \/ Less(scored[j].score, scored[i].score)
                        \/ Same(scored[i].score, scored[j].score) /\ i < j
        pos(i) == 1 + Cardinality({ j \in 1..n : j # i /\ Before(j, i) })
    IN  [k \in 1..n |-> scored[CHOOSE i \in 1..n : pos(i) = k]]

\* variant: nothing is cut
Slice_Whole(seq, end) == seq

\* seq.slice(0, end) for an integer end >= 0
Slice(seq, end) == SubSeq(seq, 1, IF end < Len(seq) THEN end ELSE Len(seq))

\* variant: nothing stands in for an empty scored list
Candidates_NoFallback(scored, ps, maxCandidates) ==
    LET top == Slice(scored, Max({1, maxCandidates}))
    IN  [k \in 1..Len(top) |-> top[k].profile]

\* variant: the cap is used as given
Candidates_NoFloor(scored, ps, maxCandidates) ==
    IF Len(scored) > 0
    THEN LET top == Slice(scored, maxCandidates)
         IN  [k \in 1..Len(top) |-> top[k].profile]
    ELSE Slice(ps, maxCandidates)

\* lines 55-58
Candidates(scored, ps, maxCandidates) ==
    IF Len(scored) > 0
    THEN LET top == Slice(scored, Max({1, maxCandidates}))
         IN  [k \in 1..Len(top) |-> top[k].profile]
    ELSE Slice(ps, Max({1, maxCandidates}))

\* lines 18-69
select(ps, ms, task, selectOptions) ==
    LET override == selectOptions.overrideModelId
        maxCandidates == IF selectOptions.maxCandidates = << >>
                         THEN DefaultMaxCandidates
                         ELSE selectOptions.maxCandidates[1]
        manual == ManualOverride(ps, override)
    IN  IF manual # << >> THEN manual[1]
        ELSE LET scored == SortByScore(Scored(Eligible(ps, task), task, ms))
                 candidates == Candidates(scored, ps, maxCandidates)
                 primary == IF Len(candidates) > 0 THEN <<candidates[1]>>
                            ELSE IF Len(ps) > 0 THEN <<ps[1]>>
                            ELSE << >>
             IN  IF primary = << >>
                 THEN [kind |-> "error", error |-> NoProfilesConfigured]
                 ELSE [kind |-> "selection", primary |-> primary[1],
                       candidates |-> candidates,
                       reason |-> <<"auto", task.taskType, task.priority>>]

\* variant: line 54 sorts the catalog itself by score
ProfilesAfterSelect_SortedInPlace(ps, ms, task, selectOptions) ==
    LET sorted == SortByScore(Scored(ps, task, ms))
    IN  [k \in 1..Len(ps) |-> sorted[k].profile]

\* the catalog array after a call of select: profiles is the array the caller
\* handed over (line 15); find, filter, map and slice (lines 26, 36-45, 48,
\* 57-58) return new arrays, and sort (line 54) is called on scored, the array
\* Promise.all returned
ProfilesAfterSelect(ps, ms, task, selectOptions) == ps

\* the store after a call of select: scoreProfile calls metrics.get only
\* (router.ts 109), which reads the map (metrics.ts, get)
StatsAfterSelect(ps, ms, task, selectOptions) == ms

\* ------------------------------------------------------------ enabled models
\* applyEnabledModels (index.ts). A string is a sequence of characters; the
\* id of profile i is the one-character string IdString(i).
IdChars == <<"1", "2", "3">>
IdString(id) == <<IdChars[id]>>
Characters == {",", " "} \cup { IdChars[i] : i \in 1..Len(IdChars) }

\* the strings of up to n characters
RECURSIVE Strings(_)
Strings(n) ==
    IF n = 0 THEN { << >> }
    ELSE Strings(n - 1) \cup { Append(str, c) : str \in { x \in Strings(n - 1) : Len(x) = n - 1 },
                                                  c \in Characters }

\* MODEL_ROUTER_ENABLED_MODELS: z.string().optional()
EnabledChoices == { << >> } \cup { <<str>> : str \in Strings(MaxChars) }

\* String.prototype.split with a one-character separator
RECURSIVE split(_, _)
split(str, sep) ==
    LET at == { i \in 1..Len(str) : str[i] = sep }
    IN  IF at = {} THEN <<str>>
        ELSE LET i == CHOOSE x \in at : \A y \in at : x <= y
             IN  <<SubSeq(str, 1, i - 1)>> \o split(SubSeq(str, i + 1, Len(str)), sep)

\* String.prototype.trim, the space being the one white space character here
RECURSIVE trim(_)
trim(str) ==
    IF str = << >> THEN str
    ELSE IF Head(str) = " " THEN trim(Tail(str))
    ELSE IF str[Len(str)] = " " THEN trim(SubSeq(str, 1, Len(str) - 1))
    ELSE str

\* variant: the ids are used as they stand between the commas
Ids_Untrimmed(enabled) == SelectSeq(split(enabled, ","), LAMBDA x : Len(x) > 0)

\* lines 325-328
Ids(enabled) ==
    SelectSeq([i \in 1..Len(split(enabled, ",")) |-> trim(split(enabled, ",")[i])],
              LAMBDA x : Len(x) > 0)

\* lines 318-334; enabled is << >> when the variable is not set
applyEnabledModels(ps, enabled) ==
    IF enabled = << >> \/ enabled[1] = << >> THEN ps
    ELSE LET ids == Ids(enabled[1])
         IN  IF Len(ids) = 0 THEN ps
             ELSE LET set == SeqToSet(ids)
                  IN  [i \in 1..Len(ps) |->
                          [ps[i] EXCEPT !.enabledByDefault = IdString(ps[i].id) \in set]]

\* ------------------------------------------------------------------ state machine
SchedulerIdle ==
    /\ tasks = << >>
    /\ now = 0
    /\ startTime = 0
    /\ timer = [state |-> "unset", due |-> 0]
    /\ loop = "notStarted"
    /\ loopError = ""
    /\ results = << >>
    /\ remainingTasks = {}
    /\ executionResults = << >>
    /\ totalCriticalSteps = 0
    /\ promises = << >>
    /\ invocations = << >>
    /\ stageNo = 0
    /\ returned = NotReturned

\* no catalog, an empty store, no select call
RouterIdle ==
    /\ profiles = << >>
    /\ stats = << >>
    /\ request = NoRequest
    /\ selection = NotSelected
    /\ recorded = << >>

\* no /ai/agentic request and no executeTrade call has been made
HostIdle ==
    /\ config = [provider |-> << >>, OPENAI_API_KEY |-> FALSE]
    /\ agentic = [pc |-> "idle"]
    /\ trading = [tradesToday |-> 0, calls |-> << >>, sent |-> << >>]

Init == SchedulerIdle /\ RouterIdle /\ HostIdle

\* lines 104-206, up to the await: the first stage is launched (or the loop
\* ends at once), then the deadline timer is set, then the race is awaited
Execute ==
    /\ loop = "notStarted"
    /\ \E ts \in TaskLists :
          /\ LET s == LoopHead(ts, FreshRun(ts))
             IN  /\ SetSched(s)
                 /\ returned' = ReturnAfter(ts, s, NotReturned, now, now)
          /\ tasks' = ts
    /\ startTime' = now
    /\ timer' = SetTimeout(now, DECISION_DEADLINE_MS)
    /\ UNCHANGED now
    /\ UNCHANGED <<routerVars, hostVars>>

\* a subAgent.respond call returns: its task's promise fulfils (lines 165-178);
\* when it is the last of its stage, Promise.all fulfils and the loop goes on
\* (lines 182-193 and the next iteration) in the same turn
WorkerResolves(id, steps) ==
    /\ id \in DOMAIN promises
    /\ promises[id].state = "pending"
    /\ LET s1 == [Sched EXCEPT !.promises[id] = [state |-> "fulfilled", steps |-> steps]]
           s2 == IF s1.loop = "pending" /\ AllFulfilled(s1)
                 THEN LoopHead(tasks, MergeStage(tasks, s1))
                 ELSE s1
       IN  /\ SetSched(s2)
           /\ returned' = IF loop = "pending"
                          THEN ReturnAfter(tasks, s2, returned, startTime, now)
                          ELSE returned
    /\ UNCHANGED <<tasks, now, startTime, timer>>
    /\ UNCHANGED <<routerVars, hostVars>>

\* a subAgent.respond call (or getAgent) throws: its task's promise rejects,
\* Promise.all rejects with it and the loop's promise rejects
WorkerRejects(id) ==
    /\ id \in DOMAIN promises
    /\ promises[id].state = "pending"
    /\ LET s1 == [Sched EXCEPT !.promises[id] = [state |-> "rejected", steps |-> 0]]
           s2 == IF s1.loop = "pending" /\ id \in StageInProgress(s1)
                 THEN [s1 EXCEPT !.loop = "rejected", !.loopError = WorkerError]
                 ELSE s1
       IN  /\ SetSched(s2)
           /\ returned' = IF loop = "pending"
                          THEN ReturnAfter(tasks, s2, returned, startTime, now)
                          ELSE returned
    /\ UNCHANGED <<tasks, now, startTime, timer>>
    /\ UNCHANGED <<routerVars, hostVars>>

\* variant: the timer fires but execute goes on waiting for the loop
DeadlineTimer_Unraced ==
    /\ timer.state = "pending"
    /\ now >= timer.due
    /\ timer' = [timer EXCEPT !.state = "fired"]
    /\ UNCHANGED <<tasks, now, startTime, loop, loopError, results, remainingTasks,
                   executionResults, totalCriticalSteps, promises, invocations, stageNo,
                   returned>>
    /\ UNCHANGED <<routerVars, hostVars>>

\* lines 195-205: the timer's callback rejects the second promise of the race
DeadlineTimer ==
    /\ timer.state = "pending"
    /\ now >= timer.due
    /\ timer' = [timer EXCEPT !.state = "fired"]
    /\ returned' = AwaitRace(returned, FailureValue(tasks, DeadlineError, startTime, now))
    /\ UNCHANGED <<tasks, now, startTime, loop, loopError, results, remainingTasks,
                   executionResults, totalCriticalSteps, promises, invocations, stageNo>>
    /\ UNCHANGED <<routerVars, hostVars>>

\* time passes; a timer that is due fires before the clock moves on
Tick ==
    /\ loop # "notStarted"
    /\ now < MaxTicks * TickMs
    /\ ~(timer.state = "pending" /\ now >= timer.due)
    /\ now' = now + TickMs
    /\ UNCHANGED <<tasks, startTime, timer, loop, loopError, results, remainingTasks,
                   executionResults, totalCriticalSteps, promises, invocations, stageNo,
                   returned>>
    /\ UNCHANGED <<routerVars, hostVars>>

Next ==
    \/ Execute
    \/ \E id \in 1..MaxTasks, steps \in StepChoices : WorkerResolves(id, steps)
    \/ \E id \in 1..MaxTasks : WorkerRejects(id)
    \/ DeadlineTimer
    \/ Tick

Spec == Init /\ [][Next]_vars

\* the runs in which a worker invocation that is still pending does return:
\* subAgent.respond is awaited without a timeout of its own (lines 165-178),
\* so the loop's progress rests on the workers' promises settling
WorkersReturn == \E id \in 1..MaxTasks, steps \in StepChoices : WorkerResolves(id, steps)

\* weak fairness of WorkersReturn, WF_vars(WorkersReturn), written out with its
\* enabling condition: WorkersReturn can take a step exactly when some
\* invocation is pending, and each of its steps changes promises
NoInvocationPending == \A id \in DOMAIN promises : promises[id].state # "pending"

WorkersReturnFairly == []<>NoInvocationPending \/ []<><<WorkersReturn>>_vars

\* time passes short of the deadline, so that the timer does not fire
TickBeforeDeadline == Tick /\ now' < timer.due

FairNext ==
    \/ Execute
    \/ \E id \in 1..MaxTasks, steps \in StepChoices : WorkerResolves(id, steps)
    \/ \E id \in 1..MaxTasks : WorkerRejects(id)
    \/ TickBeforeDeadline

\* the runs of the scheduler in which the deadline does not fire and every
\* pending worker invocation returns
FairSpec == Init /\ [][FairNext]_vars /\ WorkersReturnFairly

TypeOK ==
    /\ loop \in {"notStarted", "pending", "fulfilled", "rejected"}
    /\ timer.state \in {"unset", "pending", "fired"}
    /\ returned.kind \in {"none", "success", "error"}
    /\ remainingTasks \subseteq TaskIds(tasks)

\* ------------------------------------------------------- router state machine
\* the catalogs of the router's tests hold two profiles (profiles.ts); a
\* catalog of another size differs from them in each profile more or less
SizeDeviations(n) == IF n > TestCatalogSize THEN n - TestCatalogSize ELSE TestCatalogSize - n

\* createModelRouter with a catalog and a store holding what was recorded so
\* far; catalog and store together differ from two base profiles and an empty
\* store in at most MaxDeviations places
RouterInit ==
    /\ SchedulerIdle /\ HostIdle
    /\ \E n \in 0..(TestCatalogSize + MaxDeviations),
          kc \in 0..MaxDeviations, ks \in 0..MaxDeviations :
          /\ SizeDeviations(n) + kc + ks <= MaxDeviations
          /\ \E ps \in Catalogs(n, kc), st \in StatsChoices(n, ks) :
                /\ profiles = ps
                /\ stats = st
    /\ request = NoRequest
    /\ selection = NotSelected
    /\ recorded = << >>

\* one call of select (lines 18-69); calls are independent of each other, one
\* is followed per behaviour
SelectCall ==
    /\ request = NoRequest
    /\ \E r \in Requests(MaxDeviations - SizeDeviations(Len(profiles))
                                       - CatalogDeviations(profiles)
                                       - Cardinality(DOMAIN stats)) :
          /\ request' = r
          /\ selection' = select(profiles, stats, r.task, r.options)
          /\ profiles' = ProfilesAfterSelect(profiles, stats, r.task, r.options)
          /\ stats' = StatsAfterSelect(profiles, stats, r.task, r.options)
    /\ UNCHANGED recorded
    /\ UNCHANGED <<schedulerVars, hostVars>>

RouterNext == SelectCall

RouterSpec == RouterInit /\ [][RouterNext]_vars

\* ------------------------------------------------------ startup state machine
\* defaultModelProfiles(): base profiles, each enabled by default or not
DefaultCatalogs ==
    UNION { { [i \in 1..n |-> [BaseProfile(i) EXCEPT !.enabledByDefault = e[i]]] :
                e \in [1..n -> BOOLEAN] }
            : n \in 0..Len(IdChars) }

StartupInit ==
    /\ SchedulerIdle /\ HostIdle
    /\ profiles \in DefaultCatalogs
    /\ stats = << >>
    /\ request = NoRequest
    /\ selection = NotSelected
    /\ recorded = << >>

\* index.ts, lines 49-52: modelProfiles is what applyEnabledModels returns
ApplyEnabledModels(enabled) ==
    /\ request = NoRequest
    /\ request' = [kind |-> "applyEnabledModels", profiles |-> profiles,
                   enabled |-> enabled]
    /\ selection' = [kind |-> "profiles",
                     profiles |-> applyEnabledModels(profiles, enabled)]
    /\ profiles' = applyEnabledModels(profiles, enabled)
    /\ UNCHANGED <<stats, recorded>>
    /\ UNCHANGED <<schedulerVars, hostVars>>

StartupNext == \E enabled \in EnabledChoices : ApplyEnabledModels(enabled)

StartupSpec == StartupInit /\ [][StartupNext]_vars

\* -------------------------------------------------------- store state machine
\* a store as constructed, on which up to MaxRecords calls of record are made
MetricsInit == SchedulerIdle /\ RouterIdle /\ HostIdle

\* one call of record (metrics.ts, lines 129-158)
Record(metrics) ==
    /\ Len(recorded) < MaxRecords
    /\ stats' = record(stats, metrics)
    /\ recorded' = Append(recorded, metrics)
    /\ UNCHANGED <<profiles, request, selection>>
    /\ UNCHANGED <<schedulerVars, hostVars>>

MetricsNext == \E metrics \in MetricsChoices(Len(recorded) + 1) : Record(metrics)

MetricsSpec == MetricsInit /\ [][MetricsNext]_vars

\* ------------------------------------------------- /ai/agentic state machine
\* POST /ai/agentic (index.ts). A profile's provider is kept in config, by
\* profile id; anthropic and deepseek are read as openai is, each with its
\* own key, and a provider named "local" stands for every other string.
Providers == {"google", "openai", "local"}

NoConfiguredModels == "No configured models available for this request."

\* lines 358-372
modelIsConfigured(cfg, provider) ==
    IF provider = "google" THEN TRUE
    ELSE IF provider = "openai" THEN cfg.OPENAI_API_KEY
    ELSE FALSE

\* lines 336-356, on a list that is not empty
pickFirstUsableModel(candidates, cfg) ==
    LET usable == { i \in 1..Len(candidates) :
                      modelIsConfigured(cfg, cfg.provider[candidates[i].id]) }
    IN  IF usable = {} THEN candidates[1]
        ELSE candidates[CHOOSE i \in usable : \A j \in usable : i <= j]

\* variant: no candidate is skipped
NextAttempt_NoSkip(candidates, cfg, from) ==
    IF from > Len(candidates) THEN 0 ELSE from

\* lines 231-234: the index of the first candidate at or after from whose
\* provider is configured, 0 when the for loop runs out
RECURSIVE NextAttempt(_, _, _)
NextAttempt(candidates, cfg, from) ==
    IF from > Len(candidates) THEN 0
    ELSE IF ~modelIsConfigured(cfg, cfg.provider[candidates[from].id])
         THEN NextAttempt(candidates, cfg, from + 1)
         ELSE from

\* lines 231-240 and 291-293: the loop goes on to its next attempt and awaits
\* agentOrchestrator.respond, or runs out and the handler throws
Continue(h, candidates, cfg, from) ==
    LET i == NextAttempt(candidates, cfg, from)
    IN  IF i = 0
        THEN [h EXCEPT !.pc = "failed", !.error = NoConfiguredModels]
        ELSE [h EXCEPT !.pc = "awaiting", !.index = i, !.chosen = candidates[i].id,
                       !.attempted = Append(@, candidates[i].id)]

\* lines 274-281: what the catch block records
ErrorMetrics(candidate, taskType, timestamp) ==
    [modelId |-> candidate.id, taskType |-> taskType, latencyMs |-> 0,
     costUsd |-> << >>, outcome |-> "error", timestamp |-> timestamp]

\* lines 245-258: what onModelFinish records
FinishMetrics(chosen, primary, taskType, latencyMs, costUsd, timestamp) ==
    [modelId |-> chosen, taskType |-> taskType, latencyMs |-> latencyMs,
     costUsd |-> costUsd,
     outcome |-> IF chosen = primary.id THEN "success" ELSE "fallback_success",
     timestamp |-> timestamp]

\* in how many profiles the provider is not the one always configured
ProviderDeviations(pr, n) == Cardinality({ i \in 1..n : pr[i] # "google" })

\* the parsed body and env.MODEL_ROUTER_MAX_CANDIDATES (lines 190-228), at most
\* k places away from the defaults
AgenticRequests(k) ==
    { r \in [kind : {"select"},
             task : [taskType : TaskTypes, priority : TaskPriorities,
                     required : { <<[tools |-> TRUE, jsonOutput |-> FALSE,
                                     longContext |-> FALSE]>> },
                     budget : { << >> }],
             options : [overrideModelId : OverrideChoices,
                        maxCandidates : { <<m>> : m \in 1..DefaultMaxCandidates }]] :
        Bit(r.task.taskType # "marketAnalysis") + Bit(r.task.priority # "quality")
          + Bit(r.options.overrideModelId # << >>)
          + Bit(r.options.maxCandidates # <<DefaultMaxCandidates>>) <= k }

\* the server as started: the catalog, the providers and the keys differ from
\* the two test profiles served by google in at most MaxDeviations places, and
\* the store is empty
AgenticInit ==
    /\ SchedulerIdle
    /\ \E n \in 0..(TestCatalogSize + MaxDeviations), kc \in 0..MaxDeviations :
          /\ SizeDeviations(n) + kc <= MaxDeviations
          /\ profiles \in Catalogs(n, kc)
          /\ \E pr \in [1..n -> Providers], openaiKey \in BOOLEAN :
                /\ SizeDeviations(n) + kc + ProviderDeviations(pr, n) + Bit(openaiKey)
                      <= MaxDeviations
                /\ config = [provider |-> pr, OPENAI_API_KEY |-> openaiKey]
    /\ stats = << >>
    /\ request = NoRequest
    /\ selection = NotSelected
    /\ recorded = << >>
    /\ agentic = [pc |-> "idle"]
    /\ trading = [tradesToday |-> 0, calls |-> << >>, sent |-> << >>]

ConfigDeviations ==
    ProviderDeviations(config.provider, Len(profiles)) + Bit(config.OPENAI_API_KEY)

\* lines 188-240: the body is parsed, select is awaited, and the loop runs up
\* to its first await of agentOrchestrator.respond
AgenticRequest ==
    /\ agentic.pc = "idle"
    /\ \E r \in AgenticRequests(MaxDeviations - SizeDeviations(Len(profiles))
                                  - CatalogDeviations(profiles) - ConfigDeviations) :
          LET sel == select(profiles, stats, r.task, r.options)
              h == [pc |-> "loop", index |-> 0, chosen |-> 0, attempted |-> << >>,
                    response |-> << >>, error |-> "", finished |-> FALSE]
          IN  /\ request' = r
              /\ selection' = sel
              /\ agentic' =
                    IF sel.kind = "error"
                    THEN [h EXCEPT !.pc = "failed", !.error = sel.error]
                    ELSE Continue([h EXCEPT !.chosen =
                                      pickFirstUsableModel(sel.candidates, config).id],
                                  sel.candidates, config, 1)
    /\ UNCHANGED <<profiles, stats, recorded, config, trading>>
    /\ UNCHANGED schedulerVars

\* lines 238-272: respond returns, response is set and the loop breaks
RespondReturns ==
    /\ agentic.pc = "awaiting"
    /\ agentic' = [agentic EXCEPT !.pc = "responded", !.response = <<agentic.chosen>>]
    /\ UNCHANGED <<profiles, stats, request, selection, recorded, config, trading>>
    /\ UNCHANGED schedulerVars

\* lines 273-290: getModel or respond throws, the catch block records the
\* failure, and the loop goes on
RespondThrows ==
    /\ agentic.pc = "awaiting"
    /\ LET candidate == selection.candidates[agentic.index]
           metrics == ErrorMetrics(candidate, request.task.taskType, Len(recorded) + 1)
       IN  /\ stats' = record(stats, metrics)
           /\ recorded' = Append(recorded, metrics)
           /\ agentic' = Continue(agentic, selection.candidates, config, agentic.index + 1)
    /\ UNCHANGED <<profiles, request, selection, config, trading>>
    /\ UNCHANGED schedulerVars

\* lines 243-270: the model of the response finishes and onModelFinish records
ModelFinish(latencyMs, costUsd) ==
    /\ agentic.pc = "responded"
    /\ ~agentic.finished
    /\ LET metrics == FinishMetrics(agentic.chosen, selection.primary,
                                    request.task.taskType, latencyMs, costUsd,
                                    Len(recorded) + 1)
       IN  /\ stats' = record(stats, metrics)
           /\ recorded' = Append(recorded, metrics)
    /\ agentic' = [agentic EXCEPT !.finished = TRUE]
    /\ UNCHANGED <<profiles, request, selection, config, trading>>
    /\ UNCHANGED schedulerVars

AgenticNext ==
    \/ AgenticRequest
    \/ RespondReturns
    \/ RespondThrows
    \/ \E latencyMs \in {900}, costUsd \in { << >>, <<Rat(1, 100)>> } :
          ModelFinish(latencyMs, costUsd)

AgenticSpec == AgenticInit /\ [][AgenticNext]_vars

\* ------------------------------------------------ executeTrade state machine
\* createTradingTools (trading-tools.ts), the executeTrade tool, with the hooks
\* of the daily-limit test: beforeExecuteTrade throws when tradesToday has
\* reached the limit, afterExecuteTrade counts a successful result. The code
\* between two awaits runs in one step. The limit price (lines 312-320) is an
\* argument of the data source's call only and is left out.
DailyLimitReached == "Daily trade limit reached"
MarketNotFound == "Market not found"
DataSourceError == "data source error"

\* ExecutionResult.status (types.ts)
ExecutionStatuses == {"success", "rejected", "failed"}

\* the hook of the test: TRUE when it throws
beforeExecuteTrade(tradesToday) == tradesToday >= DailyLimit

\* the hook of the test: the counter after it ran
afterExecuteTrade(tradesToday, status) ==
    IF status = "success" THEN tradesToday + 1 ELSE tradesToday

\* the arguments of a call: the market and the outcome of the test's snapshot
\* or others
TradeArguments == [marketId : {"market_1", "market_2"}, outcomeId : {"yes", "maybe"}]

\* dataSource.getMarketSnapshot: << >> is null
getMarketSnapshot(marketId) ==
    IF marketId = "market_1" THEN <<[id |-> "market_1", outcomes |-> {"yes", "no"}]>>
    ELSE << >>

TradeInit == SchedulerIdle /\ RouterIdle /\ HostIdle

\* lines 288-298: execute is called, the before hook runs, and
\* getMarketSnapshot is awaited
ExecuteTradeCall(arguments) ==
    /\ Len(trading.calls) < MaxCalls
    /\ LET call == [arguments |-> arguments, pc |-> "snapshot", result |-> << >>,
                    error |-> ""]
       IN  trading' =
              [trading EXCEPT !.calls =
                  Append(@, IF beforeExecuteTrade(trading.tradesToday)
                            THEN [call EXCEPT !.pc = "thrown", !.error = DailyLimitReached]
                            ELSE call)]
    /\ UNCHANGED <<routerVars, config, agentic>>
    /\ UNCHANGED schedulerVars

\* lines 299-328: the snapshot arrives; the call throws, or is rejected and the
\* after hook runs, or dataSource.executeTrade is called and awaited
SnapshotReturns(c) ==
    /\ c \in 1..Len(trading.calls)
    /\ trading.calls[c].pc = "snapshot"
    /\ LET call == trading.calls[c]
           snapshot == getMarketSnapshot(call.arguments.marketId)
       IN  trading' =
              IF snapshot = << >>
              THEN [trading EXCEPT !.calls[c].pc = "thrown",
                                   !.calls[c].error = MarketNotFound]
              ELSE IF call.arguments.outcomeId \notin snapshot[1].outcomes
              THEN [trading EXCEPT !.calls[c].pc = "returned",
                                   !.calls[c].result = <<"rejected">>,
                                   !.tradesToday = afterExecuteTrade(@, "rejected")]
              ELSE [trading EXCEPT !.calls[c].pc = "executing",
                                   !.sent = Append(@, c)]
    /\ UNCHANGED <<routerVars, config, agentic>>
    /\ UNCHANGED schedulerVars

\* lines 329-335: the data source's result arrives, the after hook runs and
\* the result is returned
TradeReturns(c, status) ==
    /\ c \in 1..Len(trading.calls)
    /\ trading.calls[c].pc = "executing"
    /\ trading' = [trading EXCEPT !.calls[c].pc = "returned",
                                  !.calls[c].result = <<status>>,
                                  !.tradesToday = afterExecuteTrade(@, status)]
    /\ UNCHANGED <<routerVars, config, agentic>>
    /\ UNCHANGED schedulerVars

\* line 322: dataSource.executeTrade throws; no after hook runs
TradeThrows(c) ==
    /\ c \in 1..Len(trading.calls)
    /\ trading.calls[c].pc = "executing"
    /\ trading' = [trading EXCEPT !.calls[c].pc = "thrown",
                                  !.calls[c].error = DataSourceError]
    /\ UNCHANGED <<routerVars, config, agentic>>
    /\ UNCHANGED schedulerVars

TradeNext ==
    \/ \E arguments \in TradeArguments : ExecuteTradeCall(arguments)
    \/ \E c \in 1..MaxCalls : SnapshotReturns(c)
    \/ \E c \in 1..MaxCalls, status \in ExecutionStatuses : TradeReturns(c, status)
    \/ \E c \in 1..MaxCalls : TradeThrows(c)

TradeSpec == TradeInit /\ [][TradeNext]_vars

\* ------------------------------------------------------------------ properties
\* graph predicates, stated independently of the scheduler's algorithm
DependsOn(id) == TaskMap(tasks)[id].dependsOn

\* no two submitted tasks have the same id
UniqueIds == Cardinality(TaskIds(tasks)) = Len(tasks)

Resolved == \A id \in TaskIds(tasks) : DependsOn(id) \subseteq TaskIds(tasks)

\* a graph has a cycle iff some non-empty set of tasks each depend on a member
Acyclic ==
    \A S \in SUBSET TaskIds(tasks) :
        S # {} => \E id \in S : DependsOn(id) \cap S = {}

RECURSIVE ReachableIn(_, _)
ReachableIn(S, n) ==
    IF n = 0 THEN S
    ELSE ReachableIn(S \cup UNION { DependsOn(id) \cap TaskIds(tasks) : id \in S }, n - 1)

\* the ids reachable from id along one or more dependsOn edges
DependsOnPlus(id) == ReachableIn(DependsOn(id) \cap TaskIds(tasks), Len(tasks))

AllOnCycle ==
    /\ Len(tasks) > 0
    /\ \A id \in TaskIds(tasks) : id \in DependsOnPlus(id)

Started == loop # "notStarted"

Launched == DOMAIN promises
Pending == { id \in Launched : promises[id].state = "pending" }
Rejected == { id \in Launched : promises[id].state = "rejected" }

InvocationsOf(id) == { k \in 1..Len(invocations) : invocations[k].id = id }

ReturnedIds == [k \in 1..Len(returned.results) |-> returned.results[k].id]

DeadlineExceeded == returned.kind = "error" /\ returned.error = DeadlineError

\* every dependency of an invoked task was invoked in an earlier stage and its
\* result is in the results map
DepsMergedBeforeInvoke ==
    \A k \in 1..Len(invocations) :
        \A d \in DependsOn(invocations[k].id) :
            /\ Has(results, d)
            /\ \E j \in InvocationsOf(d) : invocations[j].stage < invocations[k].stage

\* C1: on a graph with unique ids whose dependsOn edges all resolve and form no
\* cycle, and while no worker has failed, the run fails for no reason but the
\* deadline, it has succeeded once every launched worker has returned before the
\* deadline, a successful return lists every task id exactly once, and no task
\* is invoked before each of its dependencies was merged from an earlier stage.
C1_AcyclicRunCompletes ==
    (Started /\ Rejected = {} /\ UniqueIds /\ Resolved /\ Acyclic) =>
        /\ DepsMergedBeforeInvoke
        /\ \A id \in TaskIds(tasks) : Cardinality(InvocationsOf(id)) <= 1
        /\ returned.kind = "error" => returned.error = DeadlineError
        /\ (Pending = {} /\ timer.state # "fired") => returned.kind = "success"
        /\ returned.kind = "success" =>
              /\ Len(returned.results) = Len(tasks)
              /\ SeqToSet(ReturnedIds) = TaskIds(tasks)

C1_Witness ==
    /\ returned.kind = "success"
    /\ Len(tasks) = 3
    /\ stageNo = 2
    /\ UniqueIds /\ Resolved /\ Acyclic
    /\ \E id \in TaskIds(tasks) : Cardinality(DependsOn(id)) = 2

\* C2: a worker invocation that throws does not fail the run: the loop goes on,
\* and once the siblings of the failed task have settled the failed task counts
\* as completed (it is in the results map and no longer remaining).
C2_FailureIsolated ==
    \A id \in Rejected :
        /\ ~(loop = "rejected" /\ loopError = WorkerError)
        /\ ~(returned.kind = "error" /\ returned.error = WorkerError)
        /\ (Pending = {} => (Has(results, id) /\ id \notin remainingTasks))

\* C3: a dependsOn that names no submitted task fails the run with an error
\* other than the cycle error, before any worker is invoked.
C3_UnresolvedRejectedUpFront ==
    (Started /\ ~Resolved) =>
        /\ Len(invocations) = 0
        /\ returned.kind = "error"
        /\ returned.error # CircularDependencyError

\* C4: on a graph whose tasks all lie on a dependency cycle (a task depending on
\* itself included) the run fails with the cycle error raised by the empty-stage
\* check, and no worker is invoked.
C4_AllCyclicFailsAtOnce ==
    (Started /\ AllOnCycle) =>
        /\ Len(invocations) = 0
        /\ stageNo = 0
        /\ loop = "rejected" /\ loopError = CircularDependencyError
        /\ returned.kind = "error" /\ returned.error = CircularDependencyError

C4_Witness ==
    /\ Started /\ AllOnCycle
    /\ Len(tasks) = 2
    /\ \E a, b \in TaskIds(tasks) : a # b /\ a \in DependsOn(b) /\ b \in DependsOn(a)
    /\ returned.kind = "error"

\* C5: when the timer fires while the scheduling loop is still running, the run
\* fails with the deadline error; there is one timer, set when the run begins
\* for DECISION_DEADLINE_MS after startTime, and once set it is never set again
\* or moved, whatever stages are launched.
C5_SingleDeadline ==
    /\ [][(timer.state = "pending" /\ timer'.state = "fired" /\ loop = "pending")
             => (returned'.kind = "error" /\ returned'.error = DeadlineError)]_vars
    /\ [][timer.state # "unset"
             => /\ timer'.due = timer.due
                /\ timer'.state # "unset"
                /\ (timer.state = "fired" => timer'.state = "fired")]_vars
    /\ [](Started => (timer.state # "unset"
                      /\ timer.due = startTime + DECISION_DEADLINE_MS))

C5_Witness ==
    /\ DeadlineExceeded
    /\ stageNo >= 2
    /\ Len(executionResults) >= 1
    /\ returned.wallClockTimeMs >= DECISION_DEADLINE_MS

\* C6: once the run has failed with the deadline error no worker is invoked any
\* more.
C6_NoLaunchAfterDeadline ==
    [][DeadlineExceeded => invocations' = invocations]_vars

\* C7: the value returned with the deadline error carries the result of every
\* task that was merged before the timer fired.
C7_PartialTraceReturned ==
    [][(returned.kind = "none" /\ DeadlineExceeded')
          => \A k \in 1..Len(executionResults) :
                /\ "results" \in DOMAIN returned'
                /\ \E j \in 1..Len(returned'.results) :
                      returned'.results[j] = executionResults[k]]_vars

\* C8: execute has returned by the time the deadline timer has fired, also while
\* a worker invocation is still unsettled: a run that has not returned has its
\* timer pending and is less than one clock step past DECISION_DEADLINE_MS, a
\* run whose timer has fired has returned within that time, and if the loop was
\* still running it has returned the deadline error.
C8_ReturnsByDeadline ==
    /\ (Started /\ returned.kind = "none")
          => (timer.state = "pending"
              /\ now - startTime < DECISION_DEADLINE_MS + TickMs)
    /\ timer.state = "fired"
          => (returned.kind # "none"
              /\ returned.wallClockTimeMs < DECISION_DEADLINE_MS + TickMs)
    /\ (timer.state = "fired" /\ loop = "pending") => DeadlineExceeded

C8_Witness ==
    /\ DeadlineExceeded
    /\ loop = "pending"
    /\ Pending # {}
    /\ now > timer.due

\* C9: when a task of a stage has been invoked, every task of every earlier
\* stage has fulfilled and is merged (in the results map, not remaining), and
\* the only invocations in flight are those of the stage in progress.
C9_StagesSequential ==
    /\ \A k, j \in 1..Len(invocations) :
          invocations[j].stage < invocations[k].stage
             => /\ promises[invocations[j].id].state = "fulfilled"
                /\ Has(results, invocations[j].id)
                /\ invocations[j].id \notin remainingTasks
    /\ \A id \in Pending : \E k \in InvocationsOf(id) : invocations[k].stage = stageNo

C9_Witness ==
    /\ stageNo >= 2
    /\ Pending # {}
    /\ Cardinality({ k \in 1..Len(invocations) : invocations[k].stage = 1 }) >= 2

\* C10: the context of every invoked task holds, for exactly the ids of its
\* dependsOn, the serialized result of that id, and each of these ids was
\* invoked in an earlier stage: no result of a task of the same stage is in it.
C10_ContextIsStageStartSnapshot ==
    \A k \in 1..Len(invocations) :
        LET inv == invocations[k]
        IN  /\ DOMAIN inv.context = DependsOn(inv.id)
            /\ \A d \in DOMAIN inv.context :
                  /\ inv.context[d] = JSONStringify(<<ResultOf(d)>>)
                  /\ \E j \in InvocationsOf(d) : invocations[j].stage < inv.stage

C10_Witness ==
    \E k1, k2 \in 1..Len(invocations) :
        /\ k1 # k2
        /\ invocations[k1].stage = invocations[k2].stage
        /\ invocations[k1].stage >= 2
        /\ DOMAIN invocations[k1].context # {}
        /\ DOMAIN invocations[k2].context # {}
        /\ promises[invocations[k1].id].state = "fulfilled"
        /\ promises[invocations[k2].id].state = "pending"

\* the ids invoked in stage n, and those invoked in the stages before it
StageIds(n) ==
    { invocations[k].id : k \in { j \in 1..Len(invocations) : invocations[j].stage = n } }

InvokedBefore(n) == UNION { StageIds(m) : m \in 1..(n - 1) }

\* C11: every stage holds every task not launched before it whose dependsOn ids
\* were all launched (and so merged) in earlier stages; two independent tasks
\* and a third that depends on both run as the stage {1, 2} followed by the
\* stage {3}, and the successful run has exactly these two stages.
C11_StagesMaximal ==
    /\ \A n \in 1..stageNo :
          \A id \in TaskIds(tasks) \ InvokedBefore(n) :
              DependsOn(id) \subseteq InvokedBefore(n) => id \in StageIds(n)
    /\ (Len(tasks) = 3 /\ UniqueIds
           /\ DependsOn(1) = {} /\ DependsOn(2) = {} /\ DependsOn(3) = {1, 2})
          => /\ stageNo <= 2
             /\ stageNo >= 1 => StageIds(1) = {1, 2}
             /\ stageNo = 2 => StageIds(2) = {3}
             /\ returned.kind = "success" => stageNo = 2

C11_Witness ==
    /\ returned.kind = "success"
    /\ Len(tasks) = 3 /\ UniqueIds
    /\ DependsOn(1) = {} /\ DependsOn(2) = {} /\ DependsOn(3) = {1, 2}
    /\ StageIds(1) = {1, 2} /\ StageIds(2) = {3}

\* C12: once the loop has found a cycle, on a graph whose dependsOn ids all
\* resolve, after one or more stages ran, the run has ended with the cycle error, its return value carries no task results,
\* and no invocation is in flight or follows.
C12_CycleAfterStagesFails ==
    (Resolved /\ loop = "rejected" /\ loopError = CircularDependencyError /\ stageNo >= 1) =>
        /\ returned.kind = "error"
        /\ returned.error = CircularDependencyError
        /\ "results" \notin DOMAIN returned
        /\ Pending = {}
        /\ \A id \in remainingTasks : InvocationsOf(id) = {}

\* the largest step count among the returned results of stage n
StageMaxSteps(n) ==
    Max({ returned.results[k].steps :
            k \in { j \in 1..Len(returned.results) : returned.results[j].id \in StageIds(n) } }
        \cup {0})

\* C13: a successful return reports criticalSteps equal to the orchestration
\* overhead plus, for every stage that ran, the largest step count among that
\* stage's tasks.
C13_CriticalStepsIsSumOfStageMaxima ==
    returned.kind = "success" =>
        returned.criticalSteps =
            orchestrationOverhead
            + SumUpTo([n \in 1..stageNo |-> StageMaxSteps(n)], stageNo)

C13_Witness ==
    /\ returned.kind = "success"
    /\ stageNo = 2
    /\ \E k1, k2 \in 1..Len(returned.results) :
          /\ returned.results[k1].id \in StageIds(1)
          /\ returned.results[k2].id \in StageIds(1)
          /\ returned.results[k1].steps < returned.results[k2].steps
    /\ returned.criticalSteps > orchestrationOverhead + MaxSteps

\* C14: a run on the empty task list has succeeded in the turn it began in,
\* with no worker invoked, no result, and criticalSteps equal to the
\* orchestration overhead.
C14_EmptyListSucceedsAtOnce ==
    (Started /\ Len(tasks) = 0) =>
        /\ returned.kind = "success"
        /\ returned.results = << >>
        /\ returned.criticalSteps = orchestrationOverhead
        /\ returned.wallClockTimeMs = 0
        /\ returned.totalSubagents = 0
        /\ Len(invocations) = 0
        /\ Launched = {}

C14_Witness ==
    /\ Started /\ Len(tasks) = 0
    /\ returned.kind = "success"
    /\ timer.state = "fired"

\* C15: a successful return has serialCollapseDetected set exactly when fewer
\* than three tasks were submitted, whatever the shape of the graph.
C15_SerialCollapseIffFewerThanThree ==
    returned.kind = "success" =>
        (returned.serialCollapseDetected <=> Len(tasks) < 3)

C15_Witness ==
    /\ returned.kind = "success"
    /\ Len(tasks) = 3
    /\ returned.serialCollapseDetected = FALSE
    /\ stageNo = 3

\* ------------------------------------------------------------ router properties
Called == request.kind = "select"
Selected == selection.kind = "selection"
Override == request.options.overrideModelId

InCatalog(p) == \E i \in 1..Len(profiles) : profiles[i] = p

\* what a task asks for and what a profile offers, stated from types.ts
RequiredCapabilities(task) ==
    IF task.required = << >> THEN {}
    ELSE { c \in {"tools", "jsonOutput", "longContext"} : task.required[1][c] }

SupportedCapabilities(p) ==
    (IF p.capabilities.supportsTools THEN {"tools"} ELSE {})
    \cup (IF p.capabilities.supportsJson THEN {"jsonOutput"} ELSE {})
    \cup (IF p.capabilities.supportsLongContext THEN {"longContext"} ELSE {})

WithinLatencyBudget(p, task) ==
    \/ task.budget = << >>
    \/ task.budget[1].maxLatencyMs = << >>
    \/ p.latency.p95Ms <= task.budget[1].maxLatencyMs[1]

Satisfies(p, task) ==
    /\ RequiredCapabilities(task) \subseteq SupportedCapabilities(p)
    /\ WithinLatencyBudget(p, task)

\* errors / calls of the row of a profile and a task type, 0 without calls
ErrorRate(p, taskType) ==
    IF <<p.id, taskType>> \in DOMAIN stats /\ stats[<<p.id, taskType>>].calls > 0
    THEN Rat(stats[<<p.id, taskType>>].errors, stats[<<p.id, taskType>>].calls)
    ELSE Rat(0, 1)

\* the eligible set of the call made
EligibleSet == SeqToSet(Eligible(profiles, request.task))

\* b stands before a wherever the candidate list holds a
RanksAhead(b, a) ==
    LET cands == selection.candidates
    IN  /\ (\E i \in 1..Len(cands) : cands[i] = a) => (\E j \in 1..Len(cands) : cands[j] = b)
        /\ \A i, j \in 1..Len(cands) : (cands[i] = a /\ cands[j] = b) => j < i

\* C16: a call whose overrideModelId is the id of a catalog profile returns
\* that profile as primary, as the only candidate, with reason manual_override,
\* whatever its enabledByDefault, its capabilities and its latency.
C16_OverrideWins ==
    (Called /\ Override # << >> /\ \E i \in 1..Len(profiles) : profiles[i].id = Override[1])
        => /\ Selected
           /\ selection.primary.id = Override[1]
           /\ InCatalog(selection.primary)
           /\ selection.reason = <<"manual_override">>
           /\ selection.candidates = <<selection.primary>>

C16_Witness ==
    /\ Called /\ Selected
    /\ selection.reason = <<"manual_override">>
    /\ ~selection.primary.enabledByDefault
    /\ ~Satisfies(selection.primary, request.task)
    /\ selection.primary # profiles[1]

\* C17: a call without override, on a catalog where no enabledByDefault profile
\* satisfies the required capabilities and the latency budget and some other
\* profile does, returns as primary a profile that is not enabledByDefault and
\* satisfies both.
C17_FallsBackToNonDefault ==
    (/\ Called /\ Override = << >>
     /\ \A i \in 1..Len(profiles) :
           profiles[i].enabledByDefault => ~Satisfies(profiles[i], request.task)
     /\ \E i \in 1..Len(profiles) :
           ~profiles[i].enabledByDefault /\ Satisfies(profiles[i], request.task))
        => /\ Selected
           /\ InCatalog(selection.primary)
           /\ ~selection.primary.enabledByDefault
           /\ Satisfies(selection.primary, request.task)

C17_Witness ==
    /\ Called /\ Selected /\ Override = << >>
    /\ Len(profiles) = 2
    /\ profiles[1].enabledByDefault /\ ~Satisfies(profiles[1], request.task)
    /\ selection.primary = profiles[2]
    /\ ~profiles[2].enabledByDefault

C19_HigherErrorRateRanksBehind ==
    (Called /\ Override = << >> /\ request.task.priority = "quality") =>
        \A a, b \in EligibleSet :
            (/\ Same(a.suitability[request.task.taskType],
                     b.suitability[request.task.taskType])
             /\ Less(ErrorRate(b, request.task.taskType),
                     ErrorRate(a, request.task.taskType)))
                => RanksAhead(b, a)

\* C19: on a call without override and with priority quality, of two eligible
\* profiles of equal suitability above 0 the one with the lower error rate
\* stands ahead of the other in the candidate list, provided the lower error
\* rate is below 0.8 (from 0.8 on the reliability of both is the floor 0.2).
C19_HigherErrorRateRanksBehindBelowFloor ==
    (Called /\ Override = << >> /\ request.task.priority = "quality") =>
        \A a, b \in EligibleSet :
            (/\ Same(a.suitability[request.task.taskType],
                     b.suitability[request.task.taskType])
             /\ Less(Rat(0, 1), a.suitability[request.task.taskType])
             /\ Less(ErrorRate(b, request.task.taskType),
                     ErrorRate(a, request.task.taskType))
             /\ Less(ErrorRate(b, request.task.taskType), Rat(8, 10)))
                => RanksAhead(b, a)

C19_Witness ==
    /\ Called /\ Selected /\ Override = << >>
    /\ request.task.priority = "quality"
    /\ Len(profiles) = 2
    /\ Same(ErrorRate(profiles[1], request.task.taskType), Rat(1, 1))
    /\ Same(ErrorRate(profiles[2], request.task.taskType), Rat(1, 2))
    /\ selection.candidates = <<profiles[2], profiles[1]>>

\* a and b are the only eligible profiles, a with suitability 0.9 and no row
\* in the store, b with suitability 0.7 and a row of 20 calls, all errors
TwentyErrorsScenario(a, b) ==
    LET t == request.task.taskType
    IN  /\ a # b
        /\ Same(a.suitability[t], Rat(9, 10))
        /\ <<a.id, t>> \notin DOMAIN stats
        /\ Same(b.suitability[t], Rat(7, 10))
        /\ <<b.id, t>> \in DOMAIN stats
        /\ stats[<<b.id, t>>].calls = 20
        /\ stats[<<b.id, t>>].errors = 20
        /\ EligibleSet = {a, b}

\* C20 as stated: with exactly two eligible profiles, one of suitability 0.9
\* without history and one of suitability 0.7 with 20 recorded errors, the
\* call returns the 0.7 profile as primary.
C20_ErrorProfileIsPrimary ==
    (Called /\ Override = << >>) =>
        \A a, b \in EligibleSet :
            TwentyErrorsScenario(a, b) => (Selected /\ selection.primary = b)

\* C20: with exactly two eligible profiles, one of suitability 0.9 without
\* history and one of suitability 0.7 with 20 recorded errors, a call with
\* priority quality returns the 0.9 profile as primary (0.9 against 0.7 * 0.2).
C20_CleanProfileIsPrimary ==
    (Called /\ Override = << >> /\ request.task.priority = "quality") =>
        \A a, b \in EligibleSet :
            TwentyErrorsScenario(a, b) => (Selected /\ selection.primary = a)

C20_Witness ==
    /\ Called /\ Selected /\ Override = << >>
    /\ request.task.priority = "quality"
    /\ Len(profiles) = 2
    /\ TwentyErrorsScenario(profiles[2], profiles[1])
    /\ selection.candidates = <<profiles[2], profiles[1]>>

\* 1 - error rate, held between 0.2 and 1, of the row of a profile and a task
\* type; 1 without a row
Reliability(p, taskType) ==
    LET r == OneMinus(ErrorRate(p, taskType))
    IN  IF Less(r, Rat(2, 10)) THEN Rat(2, 10)
        ELSE IF Less(Rat(1, 1), r) THEN Rat(1, 1)
        ELSE r

\* every recorded call of the profile for the task type failed
AllCallsFailed(p, taskType) ==
    /\ <<p.id, taskType>> \in DOMAIN stats
    /\ stats[<<p.id, taskType>>].calls > 0
    /\ stats[<<p.id, taskType>>].errors = stats[<<p.id, taskType>>].calls

\* a and b are the only eligible profiles, a with suitability 0.9 and a row of
\* 20 calls, all errors, b with suitability 0.7 and no row in the store
TwentyErrorsOnBetterScenario(a, b) ==
    LET t == request.task.taskType
    IN  /\ a # b
        /\ Same(a.suitability[t], Rat(9, 10))
        /\ <<a.id, t>> \in DOMAIN stats
        /\ stats[<<a.id, t>>].calls = 20
        /\ stats[<<a.id, t>>].errors = 20
        /\ Same(b.suitability[t], Rat(7, 10))
        /\ <<b.id, t>> \notin DOMAIN stats
        /\ EligibleSet = {a, b}

\* C21: on a call with priority quality the score of an eligible profile is
\* its suitability times its reliability, where reliability is 1 - error rate
\* held between 0.2 and 1 and is 1 without history; so a profile whose
\* recorded calls all failed scores 0.2 times its suitability, and when a
\* profile of suitability 0.9 with 20 recorded errors and a profile of
\* suitability 0.7 without history are the eligible profiles of a call without
\* override, the 0.7 profile stands first and is primary.
C21_ReliabilityFloorAtOneFifth ==
    (Called /\ request.task.priority = "quality") =>
        LET t == request.task.taskType
            eligible == EligibleSet
        IN  /\ \A p \in eligible :
                  LET score == scoreProfile(p, request.task, stats)
                  IN  /\ Same(score, Times(p.suitability[t], Reliability(p, t)))
                      /\ <<p.id, t>> \notin DOMAIN stats =>
                            Same(Reliability(p, t), Rat(1, 1))
                      /\ AllCallsFailed(p, t) =>
                            Same(score, Times(Rat(2, 10), p.suitability[t]))
            /\ Override = << >> =>
                  \A a, b \in eligible :
                      TwentyErrorsOnBetterScenario(a, b) =>
                          /\ Selected
                          /\ selection.primary = b
                          /\ RanksAhead(b, a)

C21_Witness ==
    /\ Called /\ Selected /\ Override = << >>
    /\ request.task.priority = "quality"
    /\ Len(profiles) = 2
    /\ TwentyErrorsOnBetterScenario(profiles[1], profiles[2])
    /\ selection.candidates = <<profiles[2], profiles[1]>>

\* the cap of the call made: max(1, maxCandidates), maxCandidates 3 by default
Cap ==
    LET m == IF request.options.maxCandidates = << >> THEN 3
             ELSE request.options.maxCandidates[1]
    IN  IF m < 1 THEN 1 ELSE m

\* the score of a profile for the call made
ScoreOf(p) == scoreProfile(p, request.task, stats)

\* C22: a call without override whose eligible set is not empty returns the
\* eligible profiles in descending order of score, cut to the first
\* max(1, maxCandidates) of them (3 by default): the list holds
\* min(cap, number eligible) distinct eligible profiles, no profile in it
\* scores less than one after it or than an eligible one left out; the primary
\* is its first element and scores highest among the eligible; the reason is
\* auto:<taskType>:<priority>.
C22_CandidatesAreTopEligibleByScore ==
    (Called /\ Override = << >> /\ EligibleSet # {}) =>
        /\ Selected
        /\ LET cands == selection.candidates
               eligible == EligibleSet
               n == Cardinality(eligible)
           IN  /\ Len(cands) = IF n < Cap THEN n ELSE Cap
               /\ \A i \in 1..Len(cands) : cands[i] \in eligible
               /\ \A i, j \in 1..Len(cands) : i < j =>
                     /\ cands[i] # cands[j]
                     /\ ~Less(ScoreOf(cands[i]), ScoreOf(cands[j]))
               /\ \A p \in eligible :
                     (\A i \in 1..Len(cands) : cands[i] # p) =>
                         \A i \in 1..Len(cands) : ~Less(ScoreOf(cands[i]), ScoreOf(p))
               /\ selection.primary = cands[1]
               /\ \A p \in eligible : ~Less(ScoreOf(selection.primary), ScoreOf(p))
        /\ selection.reason = <<"auto", request.task.taskType, request.task.priority>>

C22_Witness ==
    /\ Called /\ Selected /\ Override = << >>
    /\ request.options.maxCandidates = << >>
    /\ Len(profiles) = 4
    /\ Cardinality(EligibleSet) = 4
    /\ Len(selection.candidates) = 3
    /\ selection.candidates = <<profiles[4], profiles[1], profiles[2]>>
    /\ Less(ScoreOf(profiles[1]), ScoreOf(profiles[4]))

\* the override of the call made names a profile of the catalog
OverrideApplies ==
    /\ Override # << >>
    /\ \E i \in 1..Len(profiles) : profiles[i].id = Override[1]

C24_CandidatesSatisfyWhenSomeProfileDoes ==
    (/\ Called /\ ~OverrideApplies
     /\ \E i \in 1..Len(profiles) : Satisfies(profiles[i], request.task))
        => /\ Selected
           /\ \A k \in 1..Len(selection.candidates) :
                 /\ InCatalog(selection.candidates[k])
                 /\ Satisfies(selection.candidates[k], request.task)

C24_Witness ==
    /\ Called /\ Selected /\ ~OverrideApplies
    /\ Len(profiles) = 2
    /\ profiles[1].enabledByDefault /\ profiles[2].enabledByDefault
    /\ ~WithinLatencyBudget(profiles[1], request.task)
    /\ Satisfies(profiles[2], request.task)
    /\ request.options.maxCandidates = << >>
    /\ selection.candidates = <<profiles[2]>>

\* the latency a budget allows, << >> when it sets none
MaxLatencyOf(b) == IF b = << >> THEN << >> ELSE b[1].maxLatencyMs

\* C25: the call made returns the same selection as every call that differs
\* from it only in budget.maxDollars and budget.maxInputTokens (present with
\* any value, or absent, as long as budget.maxLatencyMs is the same): those two
\* fields never affect routing; and a profile passes the budget filter exactly
\* when its p95 latency is within budget.maxLatencyMs or none is set.
C25_DollarsAndTokensDoNotRoute ==
    Called =>
        /\ \A b \in BudgetChoices :
              MaxLatencyOf(b) = MaxLatencyOf(request.task.budget) =>
                  select(profiles, stats, [request.task EXCEPT !.budget = b],
                         request.options) = selection
        /\ \A i \in 1..Len(profiles) :
              matchesBudget(profiles[i], request.task)
                  <=> WithinLatencyBudget(profiles[i], request.task)

C25_Witness ==
    /\ Called /\ Selected /\ ~OverrideApplies
    /\ request.task.budget # << >>
    /\ request.task.budget[1].maxDollars = <<1>>
    /\ request.task.budget[1].maxInputTokens = <<1000>>
    /\ Len(profiles) = 2
    /\ selection.candidates = <<profiles[1], profiles[2]>>
    /\ selection.primary.cost.inputUsdPer1kTokens
          + selection.primary.cost.outputUsdPer1kTokens > 1
    /\ profiles[2].cost.inputUsdPer1kTokens + profiles[2].cost.outputUsdPer1kTokens = 0

StoreKeys == (1..TestCatalogSize) \X TaskTypes

\* the calls of record made for a key, by position, and the failed ones
RecordsFor(k) ==
    { i \in 1..Len(recorded) : recorded[i].modelId = k[1] /\ recorded[i].taskType = k[2] }

FailuresFor(k) ==
    { i \in RecordsFor(k) : recorded[i].outcome \in {"error", "fallback_error"} }

CallsOf(st, k) == IF k \in DOMAIN st THEN st[k].calls ELSE 0
ErrorsOf(st, k) == IF k \in DOMAIN st THEN st[k].errors ELSE 0

\* the step is a call of record; LastRecord is its argument, LastKey its key
RecordStep == Len(recorded') = Len(recorded) + 1
LastRecord == recorded'[Len(recorded')]
LastKey == <<LastRecord.modelId, LastRecord.taskType>>

\* C27: a call of record raises calls of its key by exactly 1 and errors by
\* exactly 1 when the outcome is error or fallback_error and by 0 otherwise,
\* and lowers no counter of any key; so in every state each row has
\* 0 <= errors <= calls and calls equal to the number of records made for its
\* key.
C27_CountersFollowRecords ==
    /\ [](\A k \in DOMAIN stats :
            /\ 0 <= stats[k].errors
            /\ stats[k].errors <= stats[k].calls
            /\ stats[k].calls = Cardinality(RecordsFor(k)))
    /\ [][RecordStep =>
            /\ CallsOf(stats', LastKey) = CallsOf(stats, LastKey) + 1
            /\ ErrorsOf(stats', LastKey) =
                  ErrorsOf(stats, LastKey)
                  + (IF LastRecord.outcome \in {"error", "fallback_error"} THEN 1 ELSE 0)
            /\ \A k \in StoreKeys :
                  /\ CallsOf(stats', k) >= CallsOf(stats, k)
                  /\ ErrorsOf(stats', k) >= ErrorsOf(stats, k)]_vars

C27_Witness ==
    /\ Len(recorded) = 2
    /\ recorded[1].outcome = "fallback_error"
    /\ recorded[2].outcome = "fallback_success"
    /\ \E k \in DOMAIN stats : stats[k].calls = 2 /\ stats[k].errors = 1

\* C28: record calls for one key lose no update: after the N calls made, in
\* whichever order their bodies ran, calls of a key is the number of calls
\* made for it and errors the number of those with outcome error or
\* fallback_error (the body of record holds no await, so the bodies of calls
\* made together run one after the other, in some order).
C28_NoLostUpdate ==
    \A k \in StoreKeys :
        /\ CallsOf(stats, k) = Cardinality(RecordsFor(k))
        /\ ErrorsOf(stats, k) = Cardinality(FailuresFor(k))

C28_Witness ==
    /\ Len(recorded) = 2
    /\ recorded[1].outcome = "success"
    /\ recorded[2].outcome = "error"
    /\ recorded[1].latencyMs # recorded[2].latencyMs
    /\ \E k \in DOMAIN stats : stats[k].calls = 2 /\ stats[k].errors = 1

\* new = 0.2 * value + 0.8 * old, for fractions
IsBlend(new, value, old) ==
    10 * new.num * value.den * old.den
        = new.den * (2 * value.num * old.den + 8 * old.num * value.den)

\* the field of the row of a key, << >> without row
LatencyOf(st, k) == IF k \in DOMAIN st THEN st[k].ewmaLatencyMs ELSE << >>
CostOf(st, k) == IF k \in DOMAIN st THEN st[k].ewmaCostUsd ELSE << >>

\* C29: after a call of record the EWMA latency of its key is the recorded
\* latency when it is the first call for the key and 0.2 * latency + 0.8 * the
\* former EWMA otherwise; the EWMA cost follows the same rule over the calls
\* that carry a cost and is left as it was by a call without cost.
C29_EwmaFollowsRule ==
    [][RecordStep =>
          LET oldLatency == LatencyOf(stats, LastKey)
              newLatency == LatencyOf(stats', LastKey)
              oldCost == CostOf(stats, LastKey)
              newCost == CostOf(stats', LastKey)
              latency == Rat(LastRecord.latencyMs, 1)
          IN  /\ newLatency # << >>
              /\ IF oldLatency = << >> THEN Same(newLatency[1], latency)
                 ELSE IsBlend(newLatency[1], latency, oldLatency[1])
              /\ IF LastRecord.costUsd = << >> THEN newCost = oldCost
                 ELSE /\ newCost # << >>
                      /\ IF oldCost = << >> THEN Same(newCost[1], LastRecord.costUsd[1])
                         ELSE IsBlend(newCost[1], LastRecord.costUsd[1], oldCost[1])]_vars

C29_Witness ==
    /\ Len(recorded) = 2
    /\ recorded[1].latencyMs = 900 /\ recorded[1].costUsd = <<Rat(1, 100)>>
    /\ recorded[2].latencyMs = 0 /\ recorded[2].costUsd = <<Rat(3, 100)>>
    /\ \E k \in DOMAIN stats :
          /\ stats[k].calls = 2
          /\ Same(stats[k].ewmaLatencyMs[1], Rat(720, 1))
          /\ Same(stats[k].ewmaCostUsd[1], Rat(14, 1000))

\* C30: get returns no row for a key until the first call of record for it
\* and a row from then on; a call of record leaves the row of every other key
\* as it was and removes no row.
C30_RowsLazyAndKept ==
    /\ [](\A k \in StoreKeys :
            (MetricsGet(stats, k[1], k[2]) = << >>) <=> (RecordsFor(k) = {}))
    /\ [][RecordStep =>
            /\ \A k \in StoreKeys \ {LastKey} :
                  MetricsGet(stats', k[1], k[2]) = MetricsGet(stats, k[1], k[2])
            /\ DOMAIN stats \subseteq DOMAIN stats'
            /\ MetricsGet(stats', LastKey[1], LastKey[2]) # << >>]_vars

C30_Witness ==
    /\ Len(recorded) = 2
    /\ <<recorded[1].modelId, recorded[1].taskType>>
          # <<recorded[2].modelId, recorded[2].taskType>>
    /\ Cardinality(DOMAIN stats) = 2
    /\ MetricsGet(stats, recorded[1].modelId, recorded[1].taskType)
          = MetricsGet(record(<< >>, recorded[1]), recorded[1].modelId, recorded[1].taskType)
    /\ \E k \in StoreKeys : MetricsGet(stats, k[1], k[2]) = << >>

\* what list returns in the state reached
Listed == list(stats, InsertionOrder(recorded))

\* C31: list returns every row of the store exactly once, and no row stands
\* before one whose last call is more recent: the rows are in descending order
\* of lastCallAt, which is the time of the last call made for the row's key.
C31_ListIsEveryRowNewestFirst ==
    LET listed == Listed
        n == Len(listed)
    IN  /\ n = Cardinality(DOMAIN stats)
        /\ \A k \in DOMAIN stats :
              Cardinality({ i \in 1..n : listed[i] = stats[k] }) = 1
        /\ \A i \in 1..n :
              /\ \E k \in DOMAIN stats : listed[i] = stats[k]
              /\ listed[i].lastCallAt
                    = <<recorded[Max(RecordsFor(<<listed[i].modelId, listed[i].taskType>>))].timestamp>>
        /\ \A i, j \in 1..n :
              i < j => listed[i].lastCallAt[1] >= listed[j].lastCallAt[1]

C31_Witness ==
    /\ Len(recorded) = 2
    /\ Len(Listed) = 2
    /\ Listed[1].modelId = recorded[2].modelId /\ Listed[1].taskType = recorded[2].taskType
    /\ Listed[2].modelId = recorded[1].modelId /\ Listed[2].taskType = recorded[1].taskType
    /\ Listed[1].lastCallAt[1] > Listed[2].lastCallAt[1]

\* ----------------------------------------------------------- startup properties
Applied == request.kind = "applyEnabledModels"

\* the characters of a string between two commas (or an end of the string)
IsSegment(str, i, j) ==
    /\ i = 1 \/ str[i - 1] = ","
    /\ j = Len(str) \/ str[j + 1] = ","
    /\ \A m \in i..j : str[m] # ","

\* the allow-list holds the id: a segment is the id's character with nothing
\* but spaces around it
InAllowList(str, id) ==
    \E i, j \in 1..Len(str) :
        /\ i <= j
        /\ IsSegment(str, i, j)
        /\ \E m \in i..j : /\ str[m] = IdChars[id]
                           /\ \A x \in (i..j) \ {m} : str[x] = " "

\* the allow-list holds an id: some character is neither comma nor space
HoldsAnId(enabled) ==
    /\ enabled # << >>
    /\ \E m \in 1..Len(enabled[1]) : enabled[1][m] \notin {",", " "}

\* C32: applyEnabledModels with an allow-list that holds an id returns the
\* catalog with enabledByDefault of each profile true exactly when its id is
\* in the list and every other field as it was; with no list, or a list that
\* holds no id, it returns the catalog as it was.
C32_AllowListSetsEnabledByDefault ==
    Applied =>
        LET before == request.profiles
            after == selection.profiles
        IN  IF HoldsAnId(request.enabled)
            THEN /\ Len(after) = Len(before)
                 /\ \A i \in 1..Len(before) :
                       /\ after[i].enabledByDefault
                             <=> InAllowList(request.enabled[1], before[i].id)
                       /\ [after[i] EXCEPT !.enabledByDefault = before[i].enabledByDefault]
                             = before[i]
            ELSE after = before

C32_Witness ==
    /\ Applied
    /\ request.enabled = << <<"2", ",", " ", "3">> >>
    /\ Len(request.profiles) = 3
    /\ request.profiles[1].enabledByDefault
    /\ ~request.profiles[3].enabledByDefault
    /\ ~selection.profiles[1].enabledByDefault
    /\ selection.profiles[2].enabledByDefault
    /\ selection.profiles[3].enabledByDefault

\* the tasks still in remainingTasks when stage n was launched
RemainingAt(n) == TaskIds(tasks) \ InvokedBefore(n)

\* C33: on an acyclic graph whose dependsOn ids all resolve, while no worker
\* has thrown and the deadline has not fired, every stage launches at least
\* one task that was still remaining, so there are never more stages than
\* tasks; the loop is never left waiting with no invocation pending; a loop
\* that has ended has returned the success value; and when the pending
\* invocations return, the run does end with the success value.
C33_LoopEndsWithinAsManyStagesAsTasks ==
    /\ []((Started /\ Rejected = {} /\ Resolved /\ Acyclic) =>
             /\ timer.state # "fired"
             /\ stageNo <= Len(tasks)
             /\ \A n \in 1..stageNo :
                   /\ StageIds(n) # {}
                   /\ StageIds(n) \subseteq RemainingAt(n)
             /\ Pending = {} => (loop = "fulfilled" /\ remainingTasks = {})
             /\ loop = "fulfilled" => returned.kind = "success")
    /\ (Started /\ Resolved /\ Acyclic) ~> (returned.kind = "success" \/ Rejected # {})

C33_Witness ==
    /\ Resolved /\ Acyclic /\ Rejected = {}
    /\ Len(tasks) = 3
    /\ stageNo = Len(tasks)
    /\ \A n \in 1..3 : StageIds(n) = {n}
    /\ loop = "fulfilled"
    /\ timer.state = "pending"
    /\ now > startTime
    /\ returned.kind = "success"

\* C34: the value execute returns is decided once and never changes afterwards;
\* when the loop has finished and the deadline error was not returned first,
\* the value is the success value with exactly one result for each submitted
\* id, and the timer firing later leaves it as it is.
C34_OutcomeDecidedOnce ==
    /\ [][returned.kind # "none" => returned' = returned]_vars
    /\ []((loop = "fulfilled" /\ ~DeadlineExceeded) =>
             /\ returned.kind = "success"
             /\ Len(returned.results) = Cardinality(TaskIds(tasks))
             /\ SeqToSet(ReturnedIds) = TaskIds(tasks))
    /\ [][(returned.kind = "success" /\ timer.state = "pending" /\ timer'.state = "fired")
             => (returned'.kind = "success" /\ returned'.results = returned.results)]_vars

C34_Witness ==
    /\ returned.kind = "success"
    /\ Len(returned.results) = 2
    /\ stageNo = 2
    /\ timer.state = "fired"
    /\ now > timer.due

\* C35: a successful return holds as many task results as the totalSubagents
\* value of its metrics, the number of tasks submitted.
C35_ResultCountIsTotalSubagents ==
    returned.kind = "success" =>
        /\ returned.totalSubagents = Len(tasks)
        /\ Len(returned.results) = returned.totalSubagents

\* the score select computes for the test profile of a model on a task type
ScoreWith(ms, modelId, taskType, priority) ==
    scoreProfile(BaseProfile(modelId),
                 [taskType |-> taskType, priority |-> priority,
                  required |-> << >>, budget |-> << >>],
                 ms)

\* C36: a call of record with outcome error never raises the score of its
\* model on its task type, under any of the three priorities.
C36_ErrorRecordNeverRaisesScore ==
    [][(RecordStep /\ LastRecord.outcome = "error") =>
          \A priority \in TaskPriorities :
              ~Less(ScoreWith(stats, LastRecord.modelId, LastRecord.taskType, priority),
                    ScoreWith(stats', LastRecord.modelId, LastRecord.taskType, priority))]_vars

\* C37: when some enabledByDefault profile satisfies the required capabilities
\* and the latency budget, every candidate of a call without override is
\* enabledByDefault, also when a profile that is not enabled satisfies them
\* too and scores higher, and when fewer enabled profiles satisfy them than
\* the cap admits.
C37_EnabledProfilesShadowTheOthers ==
    (/\ Called /\ Override = << >>
     /\ \E i \in 1..Len(profiles) :
           profiles[i].enabledByDefault /\ Satisfies(profiles[i], request.task))
        => /\ Selected
           /\ \A k \in 1..Len(selection.candidates) :
                 selection.candidates[k].enabledByDefault

C37_Witness ==
    /\ Called /\ Selected /\ Override = << >>
    /\ Len(selection.candidates) < Cap
    /\ \A k \in 1..Len(selection.candidates) : selection.candidates[k].enabledByDefault
    /\ \E i \in 1..Len(profiles) :
          /\ ~profiles[i].enabledByDefault
          /\ Satisfies(profiles[i], request.task)
          /\ Less(ScoreOf(selection.primary), ScoreOf(profiles[i]))

\* C40: a call whose overrideModelId names no profile of the catalog returns
\* what the call without override returns on the same catalog, store and task,
\* and when that is a selection its reason is auto:<taskType>:<priority>.
C40_UnknownOverrideIsIgnored ==
    (Called /\ Override # << >> /\ ~OverrideApplies) =>
        /\ selection = select(profiles, stats, request.task,
                              [request.options EXCEPT !.overrideModelId = << >>])
        /\ Selected =>
              selection.reason = <<"auto", request.task.taskType, request.task.priority>>

C40_Witness ==
    /\ Called /\ Selected
    /\ Override # << >> /\ ~OverrideApplies
    /\ Len(profiles) = 2
    /\ Len(selection.candidates) = 2
    /\ selection.reason = <<"auto", request.task.taskType, request.task.priority>>
    /\ selection.primary = profiles[2]

\* a candidate whose provider the server holds a key for, or needs none for
Configured(p) ==
    \/ config.provider[p.id] = "google"
    \/ config.provider[p.id] = "openai" /\ config.OPENAI_API_KEY

\* the ids of the candidates that are configured, in the order of the list
UsableIds ==
    LET usable == SelectSeq(selection.candidates, Configured)
    IN  [k \in 1..Len(usable) |-> usable[k].id]

\* the model ids of the records with an error outcome, in the order recorded
ErrorRecordIds ==
    LET errors == SelectSeq(recorded, LAMBDA m : m.outcome \in {"error", "fallback_error"})
    IN  [k \in 1..Len(errors) |-> errors[k].modelId]

AllButLast(seq) == SubSeq(seq, 1, Len(seq) - 1)

\* C38: the /ai/agentic handler attempts the configured candidates of the
\* selection in list order and no other; while an attempt is awaited, and when
\* one has returned, every attempt before it has exactly one error record, made
\* in the order of the attempts; an attempt that returns is the last one and is
\* the response; a handler that fails after select returned has attempted every
\* configured candidate, has one error record for each, and fails with "No
\* configured models available for this request."
C38_CandidatesTriedInOrderUntilOneReturns ==
    /\ []((agentic.pc # "idle" /\ Selected) =>
            LET attempted == agentic.attempted
            IN  /\ Len(attempted) <= Len(UsableIds)
                /\ attempted = SubSeq(UsableIds, 1, Len(attempted))
                /\ agentic.pc = "awaiting" =>
                      /\ Len(attempted) >= 1
                      /\ ErrorRecordIds = AllButLast(attempted)
                /\ agentic.pc = "responded" =>
                      /\ ErrorRecordIds = AllButLast(attempted)
                      /\ agentic.response = <<attempted[Len(attempted)]>>
                /\ agentic.pc = "failed" =>
                      /\ attempted = UsableIds
                      /\ ErrorRecordIds = attempted
                      /\ agentic.response = << >>
                      /\ agentic.error = NoConfiguredModels
                /\ \A k \in 1..Len(recorded) :
                      recorded[k].outcome = "error"
                         => recorded[k].taskType = request.task.taskType)
    /\ [][agentic.pc \in {"responded", "failed"}
             => agentic'.attempted = agentic.attempted]_vars

C38_Witness ==
    /\ agentic.pc = "responded"
    /\ Selected
    /\ Len(selection.candidates) = 3
    /\ ~Configured(selection.candidates[2])
    /\ agentic.attempted = <<selection.candidates[1].id, selection.candidates[3].id>>
    /\ agentic.response = <<selection.candidates[3].id>>
    /\ ErrorRecordIds = <<selection.candidates[1].id>>

\* the calls of executeTrade that returned a successful result
SuccessfulTrades ==
    { c \in 1..Len(trading.calls) : trading.calls[c].result = <<"success">> }

\* the calls the before hook rejected
RejectedByHook ==
    { c \in 1..Len(trading.calls) :
        trading.calls[c].pc = "thrown" /\ trading.calls[c].error = DailyLimitReached }

\* C39: with the hooks of the daily-limit test, no more than DailyLimit calls
\* of executeTrade return a successful result, whether or not calls overlap,
\* and no call the before hook rejected reaches dataSource.executeTrade.
C39_DailyLimitHolds ==
    /\ Cardinality(SuccessfulTrades) <= DailyLimit
    /\ RejectedByHook \cap SeqToSet(trading.sent) = {}

====
